---- MODULE Spec2Model ----
(***************************************************************************)
(* A model of the rogue-guy dungeon crawler: the entity store, the combat  *)
(* and progression engine, the item effects, the dungeon generator and the *)
(* game loop of play_game with its AI phase.                               *)
(*                                                                         *)
(* Store indices are those of the source (PLAYER = 0); the store is a      *)
(* sequence, so store index i is element i + 1 (see At).  Option<T> is a   *)
(* sequence of length at most one: None is << >> and Some(v) is << v >>.   *)
(***************************************************************************)
EXTENDS Integers, Sequences, FiniteSets, TLC

VARIABLES
    objects,                    \* Vec<GameObject>: the entity store
    inventory,                  \* Game.inventory
    messages,                   \* Game.messages: what the latest step appended
    game_map,                   \* Game.game_map: game_map[x][y] is a Tile
    dungeon_level,              \* Game.dungeon_level
    fov,                        \* Tcod.fov: the tiles currently in view
    previous_player_position,   \* play_game's local
    player_action,              \* play_game's local: handle_keys' last result
    pc,                         \* where play_game stands
    id,                         \* the AI phase's loop index
    iteration,                  \* how many iterations of play_game's loop began
    turns,                      \* history: ids ai_take_turn ran for, this iteration
    last                        \* history: what the latest step did

vars == <<objects, inventory, messages, game_map, dungeon_level, fov,
          previous_player_position, player_action, pc, id, iteration,
          turns, last>>

-----------------------------------------------------------------------------
(* Bounds of the model.  The grid and the generator's limits are the       *)
(* source's MAP_WIDTH = 80, MAP_HEIGHT = 43, ROOM_MIN_SIZE = 6,            *)
(* ROOM_MAX_SIZE = 10, MAX_ROOMS = 30, MAX_ROOM_MONSTERS = 3,              *)
(* MAX_ROOM_ITEMS = 2 and TORCH_RADIUS = 10 scaled down.                   *)

MAP_WIDTH == 6
MAP_HEIGHT == MAP_WIDTH
ROOM_MIN_SIZE == MAP_WIDTH - 1
ROOM_MAX_SIZE == ROOM_MIN_SIZE
MAX_ROOMS == 1
MAX_ROOM_MONSTERS == 2
MAX_ROOM_ITEMS == 1
TORCH_RADIUS == 3

\* play_game's loop is followed for MaxIter iterations.
MaxIter == 3

-----------------------------------------------------------------------------
(* Program constants.                                                      *)

PLAYER == 0

HEAL_AMOUNT == 40
LIGHTNING_DAMAGE == 40
LIGHTNING_RANGE == 5
CONFUSE_NUM_TURNS == 10
CONFUSE_RANGE == 8
FIREBALL_RADIUS == 3
FIREBALL_DAMAGE == 25
LEVEL_UP_BASE == 200
LEVEL_UP_FACTOR == 150
INVENTORY_MAX == 26

-----------------------------------------------------------------------------
(* Option<T>, store indexing, the message log.                             *)

None == << >>
Some(v) == << v >>
IsSome(o) == Len(o) > 0
IsNone(o) == Len(o) = 0
Unwrap(o) == o[1]

At(items, i) == items[i + 1]
Put(items, i, v) == [items EXCEPT ![i + 1] = v]
Ids(items) == 0 .. (Len(items) - 1)

RECURSIVE SumSeq(_)
SumSeq(s) == IF s = << >> THEN 0 ELSE Head(s) + SumSeq(Tail(s))

\* Messages.add: a message is its format string's tag and its arguments.
Msg(text, a, b, n) == [text |-> text, a |-> a, b |-> b, n |-> n]
add(msgs, m) == Append(msgs, m)

-----------------------------------------------------------------------------
(* Components and GameObject.                                              *)

Fighter(hp, max_hp, defense, power_, xp, on_death) ==
    [hp |-> hp, base_max_hp |-> max_hp, base_defense |-> defense,
     base_power |-> power_, xp |-> xp, on_death |-> on_death]

Basic == [tag |-> "Basic"]
Confused(previous_ai, num_turns) ==
    [tag |-> "Confused", previous_ai |-> previous_ai, num_turns |-> num_turns]

Equipment(slot, power_bonus, defense_bonus, max_hp_bonus) ==
    [slot |-> slot, equipped |-> FALSE, power_bonus |-> power_bonus,
     defense_bonus |-> defense_bonus, max_hp_bonus |-> max_hp_bonus]

GameObject_new(x, y, glyph, name, color, blocks) ==
    [x |-> x, y |-> y, glyph |-> glyph, name |-> name, color |-> color,
     blocks |-> blocks, alive |-> FALSE, fighter |-> None, ai |-> None,
     item |-> None, equipment |-> None, always_visible |-> FALSE, level |-> 1]

pos(o) == <<o.x, o.y>>
set_pos(o, x, y) == [o EXCEPT !.x = x, !.y = y]

\* distance / distance_to take the f32 square root of this integer; every
\* comparison the code makes on a distance is made here on the squares.
DistSq(o, x, y) == (x - o.x) * (x - o.x) + (y - o.y) * (y - o.y)

\* The Equipment of every equipped item of the inventory, for the player.
get_all_equipped(o, inv) ==
    IF o.name = "player"
    THEN LET worn == SelectSeq(inv, LAMBDA it : IsSome(it.equipment)
                                                /\ Unwrap(it.equipment).equipped)
         IN  [k \in 1 .. Len(worn) |-> Unwrap(worn[k].equipment)]
    ELSE << >>

power_ignoring_equipment(o, inv) ==
    IF IsSome(o.fighter) THEN Unwrap(o.fighter).base_power ELSE 0

power(o, inv) ==
    LET base_power == IF IsSome(o.fighter) THEN Unwrap(o.fighter).base_power ELSE 0
        eq == get_all_equipped(o, inv)
    IN  base_power + SumSeq([k \in 1 .. Len(eq) |-> eq[k].power_bonus])

defense(o, inv) ==
    LET base_defense == IF IsSome(o.fighter) THEN Unwrap(o.fighter).base_defense ELSE 0
        eq == get_all_equipped(o, inv)
    IN  base_defense + SumSeq([k \in 1 .. Len(eq) |-> eq[k].defense_bonus])

max_hp(o, inv) ==
    LET base_max_hp == IF IsSome(o.fighter) THEN Unwrap(o.fighter).base_max_hp ELSE 0
        eq == get_all_equipped(o, inv)
    IN  base_max_hp + SumSeq([k \in 1 .. Len(eq) |-> eq[k].max_hp_bonus])

-----------------------------------------------------------------------------
(* Death.                                                                  *)

player_death(o, msgs) ==
    [obj |-> [o EXCEPT !.glyph = "%", !.color = "DARK_RED"],
     messages |-> add(msgs, Msg("You died!", "", "", 0))]

monster_death_still_blocking(o, msgs) ==
    [obj |-> [o EXCEPT !.glyph = "%", !.color = "DARK_RED",
                       !.fighter = None, !.ai = None,
                       !.name = "remains of " \o o.name],
     messages |-> add(msgs, Msg("{} Is dead!", o.name, "", 0))]

monster_death_keeping_the_ai(o, msgs) ==
    [obj |-> [o EXCEPT !.glyph = "%", !.color = "DARK_RED", !.blocks = FALSE,
                       !.fighter = None,
                       !.name = "remains of " \o o.name],
     messages |-> add(msgs, Msg("{} Is dead!", o.name, "", 0))]

monster_death(o, msgs) ==
    [obj |-> [o EXCEPT !.glyph = "%", !.color = "DARK_RED", !.blocks = FALSE,
                       !.fighter = None, !.ai = None,
                       !.name = "remains of " \o o.name],
     messages |-> add(msgs, Msg("{} Is dead!", o.name, "", 0))]

callback(on_death, o, msgs) ==
    IF on_death = "Player" THEN player_death(o, msgs) ELSE monster_death(o, msgs)

take_damage_staying_alive(o, damage, msgs) ==
    LET o1 == IF IsSome(o.fighter) /\ damage > 0
              THEN [o EXCEPT !.fighter[1].hp = @ - damage]
              ELSE o
    IN  IF IsSome(o1.fighter) /\ Unwrap(o1.fighter).hp <= 0
        THEN LET fighter == Unwrap(o1.fighter)
                 died == callback(fighter.on_death, o1, msgs)
             IN  [obj |-> died.obj, messages |-> died.messages, xp |-> Some(fighter.xp)]
        ELSE [obj |-> o1, messages |-> msgs, xp |-> None]

\* GameObject::take_damage: the object after the damage, the log, and the
\* Option<i32> it returns.
take_damage(o, damage, msgs) ==
    LET o1 == IF IsSome(o.fighter) /\ damage > 0
              THEN [o EXCEPT !.fighter[1].hp = @ - damage]
              ELSE o
    IN  IF IsSome(o1.fighter) /\ Unwrap(o1.fighter).hp <= 0
        THEN LET fighter == Unwrap(o1.fighter)
                 died == callback(fighter.on_death, [o1 EXCEPT !.alive = FALSE], msgs)
             IN  [obj |-> died.obj, messages |-> died.messages, xp |-> Some(fighter.xp)]
        ELSE [obj |-> o1, messages |-> msgs, xp |-> None]

\* GameObject::attack: attacker and target after it, and the log.
attack(a, target, inv, msgs) ==
    LET damage == power(a, inv) - defense(target, inv)
    IN  IF damage > 0
        THEN LET m == add(msgs, Msg("{} attacks {} for {} hit points.",
                                    a.name, target.name, damage))
                 r == take_damage(target, damage, m)
             IN  [attacker |-> IF IsSome(r.xp)
                               THEN [a EXCEPT !.fighter[1].xp = @ + Unwrap(r.xp)]
                               ELSE a,
                  target |-> r.obj, messages |-> r.messages]
        ELSE [attacker |-> a, target |-> target,
              messages |-> add(msgs, Msg("{} attacks {} but it has no effect!",
                                         a.name, target.name, 0))]

heal_over_the_maximum(o, amount, inv) ==
    IF IsSome(o.fighter)
    THEN [o EXCEPT !.fighter[1].hp = @ + amount]
    ELSE o

\* GameObject::heal
heal(o, amount, inv) ==
    IF IsSome(o.fighter)
    THEN LET h == Unwrap(o.fighter).hp + amount
         IN  [o EXCEPT !.fighter[1].hp = IF h > max_hp(o, inv) THEN max_hp(o, inv) ELSE h]
    ELSE o

-----------------------------------------------------------------------------
(* Equipment helpers of the equipment module.                              *)

\* The inventory index of the first item equipped in `slot`, if any.
get_equipped_in_slot(slot, inv) ==
    LET hits == {k \in Ids(inv) :
                    /\ IsSome(At(inv, k).equipment)
                    /\ Unwrap(At(inv, k).equipment).equipped
                    /\ Unwrap(At(inv, k).equipment).slot = slot}
    IN  IF hits = {} THEN None
        ELSE Some(CHOOSE k \in hits : \A j \in hits : k <= j)

equip_ignoring_the_item_tag(o, msgs) ==
    IF IsSome(o.equipment)
    THEN IF ~Unwrap(o.equipment).equipped
         THEN [obj |-> [o EXCEPT !.equipment[1].equipped = TRUE],
               messages |-> add(msgs, Msg("Equipped {} on {}.", o.name, Unwrap(o.equipment).slot, 0))]
         ELSE [obj |-> o, messages |-> msgs]
    ELSE [obj |-> o, messages |-> add(msgs, Msg("Can't equip {:?} because it's not an Equipment.", o.name, "", 0))]

\* GameObject::equip
equip(o, msgs) ==
    IF IsNone(o.item)
    THEN [obj |-> o, messages |-> add(msgs, Msg("Can't equip {:?} because it's not an Item.", o.name, "", 0))]
    ELSE IF IsSome(o.equipment)
    THEN IF ~Unwrap(o.equipment).equipped
         THEN [obj |-> [o EXCEPT !.equipment[1].equipped = TRUE],
               messages |-> add(msgs, Msg("Equipped {} on {}.", o.name, Unwrap(o.equipment).slot, 0))]
         ELSE [obj |-> o, messages |-> msgs]
    ELSE [obj |-> o, messages |-> add(msgs, Msg("Can't equip {:?} because it's not an Equipment.", o.name, "", 0))]

\* GameObject::dequip
dequip(o, msgs) ==
    IF IsNone(o.item)
    THEN [obj |-> o, messages |-> add(msgs, Msg("Can't dequip {:?} because it's not an Item.", o.name, "", 0))]
    ELSE IF IsSome(o.equipment)
    THEN IF ~Unwrap(o.equipment).equipped
         THEN [obj |-> [o EXCEPT !.equipment[1].equipped = FALSE],
               messages |-> add(msgs, Msg("Dequipped {} on {}.", o.name, Unwrap(o.equipment).slot, 0))]
         ELSE [obj |-> o, messages |-> msgs]
    ELSE [obj |-> o, messages |-> add(msgs, Msg("Can't dequip {:?} because it's not an Equipment.", o.name, "", 0))]

-----------------------------------------------------------------------------
(* Movement.                                                               *)

is_blocked_ignoring_objects(x, y, map, objs) == map[x][y].blocked

is_blocked(x, y, map, objs) ==
    \/ map[x][y].blocked
    \/ \E k \in Ids(objs) : At(objs, k).blocks /\ pos(At(objs, k)) = <<x, y>>

move_by(i, dx, dy, map, objs) ==
    LET o == At(objs, i)
    IN  IF ~is_blocked(o.x + dx, o.y + dy, map, objs)
        THEN Put(objs, i, set_pos(o, o.x + dx, o.y + dy))
        ELSE objs

\* (d as f32 / distance).round() as i32 for the displacement component d of
\* a displacement of squared length dsq: |d| / distance >= 0.5 rounds away
\* from zero.  A zero distance divides to NaN, which casts to 0.
RoundUnit(d, dsq) ==
    IF dsq = 0 \/ 4 * d * d < dsq THEN 0 ELSE IF d > 0 THEN 1 ELSE -1

move_towards(i, target_x, target_y, map, objs) ==
    LET dx == target_x - At(objs, i).x
        dy == target_y - At(objs, i).y
        dsq == dx * dx + dy * dy
    IN  move_by(i, RoundUnit(dx, dsq), RoundUnit(dy, dsq), map, objs)

\* Iterator::position, given the indices that satisfy the predicate: the
\* first of them.
position(hits) ==
    IF hits = {} THEN None
    ELSE Some(CHOOSE k \in hits : \A j \in hits : k <= j)

\* mut_two asserts first_index != second_index, then yields the two elements.
mut_two_ok(first_index, second_index) == first_index # second_index
mut_two_in_store_order(first_index, second_index, items) ==
    IF first_index < second_index
    THEN <<At(items, first_index), At(items, second_index)>>
    ELSE <<At(items, second_index), At(items, first_index)>>

\* mut_two past its assertion: the slice is split at the larger index, the
\* smaller is taken from the first part and the larger is the head of the
\* second.
mut_two(first_index, second_index, items) ==
    LET split_at_index == IF first_index > second_index THEN first_index
                          ELSE second_index
        first_slice == SubSeq(items, 1, split_at_index)
        second_slice == SubSeq(items, split_at_index + 1, Len(items))
    IN  IF first_index < second_index
        THEN <<first_slice[first_index + 1], second_slice[1]>>
        ELSE <<second_slice[1], first_slice[second_index + 1]>>

\* player_move_or_attack: the store and the log after it; `panic` when
\* mut_two's assertion fails.
player_move_or_attack(dx, dy, map, inv, msgs, objs) ==
    LET x == At(objs, PLAYER).x + dx
        y == At(objs, PLAYER).y + dy
        target_id == position({k \in Ids(objs) : /\ IsSome(At(objs, k).fighter)
                                                /\ pos(At(objs, k)) = <<x, y>>})
    IN  IF IsSome(target_id)
        THEN IF ~mut_two_ok(PLAYER, Unwrap(target_id))
             THEN [objects |-> objs, messages |-> msgs, panic |-> TRUE]
             ELSE LET two == mut_two(PLAYER, Unwrap(target_id), objs)
                      r == attack(two[1], two[2], inv, msgs)
                  IN  [objects |-> Put(Put(objs, PLAYER, r.attacker),
                                       Unwrap(target_id), r.target),
                       messages |-> r.messages, panic |-> FALSE]
        ELSE [objects |-> move_by(PLAYER, dx, dy, map, objs),
              messages |-> msgs, panic |-> FALSE]

-----------------------------------------------------------------------------
(* Inventory.                                                              *)

\* Vec::swap_remove and Vec::remove
swap_remove_keeping_the_order(items, i) ==
    SubSeq(items, 1, i) \o SubSeq(items, i + 2, Len(items))

swap_remove(items, i) ==
    LET n == Len(items)
    IN  IF i = n - 1 THEN SubSeq(items, 1, n - 1)
        ELSE SubSeq(Put(items, i, items[n]), 1, n - 1)

remove(items, i) == SubSeq(items, 1, i) \o SubSeq(items, i + 2, Len(items))

pick_item_up_past_the_limit(object_id, inv, msgs, objs) ==
    LET item == At(objs, object_id)
        m == add(msgs, Msg("You picked up a {}!", item.name, "", 0))
        index == Len(inv)
        inv1 == Append(inv, item)
    IN  IF IsSome(item.equipment)
             /\ IsNone(get_equipped_in_slot(Unwrap(item.equipment).slot, inv1))
        THEN LET e == equip(At(inv1, index), m)
             IN  [objects |-> swap_remove(objs, object_id),
                  inventory |-> Put(inv1, index, e.obj), messages |-> e.messages]
        ELSE [objects |-> swap_remove(objs, object_id),
              inventory |-> inv1, messages |-> m]

pick_item_up(object_id, inv, msgs, objs) ==
    IF Len(inv) >= INVENTORY_MAX
    THEN [objects |-> objs, inventory |-> inv,
          messages |-> add(msgs, Msg("Your inventory is full, cannot pick up {}.",
                                     At(objs, object_id).name, "", 0))]
    ELSE LET item == At(objs, object_id)
             m == add(msgs, Msg("You picked up a {}!", item.name, "", 0))
             index == Len(inv)
             inv1 == Append(inv, item)
         IN  IF IsSome(item.equipment)
                  /\ IsNone(get_equipped_in_slot(Unwrap(item.equipment).slot, inv1))
             THEN LET e == equip(At(inv1, index), m)
                  IN  [objects |-> swap_remove(objs, object_id),
                       inventory |-> Put(inv1, index, e.obj), messages |-> e.messages]
             ELSE [objects |-> swap_remove(objs, object_id),
                   inventory |-> inv1, messages |-> m]

drop_item(inventory_id, inv, msgs, objs) ==
    LET item == At(inv, inventory_id)
        d == IF IsSome(item.equipment) THEN dequip(item, msgs)
             ELSE [obj |-> item, messages |-> msgs]
        placed == set_pos(d.obj, At(objs, PLAYER).x, At(objs, PLAYER).y)
    IN  [objects |-> Append(objs, placed), inventory |-> remove(inv, inventory_id),
         messages |-> add(d.messages, Msg("You dropped a {}.", placed.name, "", 0))]

-----------------------------------------------------------------------------
(* Progression.                                                            *)

level_up_xp_after_increment(o) == LEVEL_UP_BASE + (o.level + 1) * LEVEL_UP_FACTOR

level_up_xp(o) == LEVEL_UP_BASE + o.level * LEVEL_UP_FACTOR

level_up_all_at_once(choice, msgs, objs) ==
    LET player == At(objs, PLAYER)
        xp == IF IsSome(player.fighter) THEN Unwrap(player.fighter).xp ELSE 0
        first == level_up_xp(player)
        second == level_up_xp([player EXCEPT !.level = @ + 1])
        gained == IF xp >= first + second THEN 2 ELSE IF xp >= first THEN 1 ELSE 0
        spent == IF gained = 2 THEN first + second ELSE first
    IN  IF gained > 0
        THEN LET p1 == [player EXCEPT !.level = @ + gained, !.fighter[1].xp = @ - spent]
                 p2 == CASE choice = 0 -> [p1 EXCEPT !.fighter[1].base_max_hp = @ + 20,
                                                     !.fighter[1].hp = @ + 20]
                        [] choice = 1 -> [p1 EXCEPT !.fighter[1].base_power = @ + 1]
                        [] choice = 2 -> [p1 EXCEPT !.fighter[1].base_defense = @ + 1]
             IN  [objects |-> Put(objs, PLAYER, p2),
                  messages |-> add(msgs, Msg("Your battle skills grow stronger!  You reached level {}!",
                                             "", "", p1.level))]
        ELSE [objects |-> objs, messages |-> msgs]

\* level_up with the level-up menu's answer `choice`.
level_up(choice, msgs, objs) ==
    LET player == At(objs, PLAYER)
        xp == IF IsSome(player.fighter) THEN Unwrap(player.fighter).xp ELSE 0
    IN  IF xp >= level_up_xp(player)
        THEN LET p1 == [player EXCEPT !.level = @ + 1,
                                      !.fighter[1].xp = @ - level_up_xp(player)]
                 p2 == CASE choice = 0 -> [p1 EXCEPT !.fighter[1].base_max_hp = @ + 20,
                                                     !.fighter[1].hp = @ + 20]
                        [] choice = 1 -> [p1 EXCEPT !.fighter[1].base_power = @ + 1]
                        [] choice = 2 -> [p1 EXCEPT !.fighter[1].base_defense = @ + 1]
             IN  [objects |-> Put(objs, PLAYER, p2),
                  messages |-> add(msgs, Msg("Your battle skills grow stronger!  You reached level {}!",
                                             "", "", p1.level))]
        ELSE [objects |-> objs, messages |-> msgs]

-----------------------------------------------------------------------------
(* Targeting.                                                              *)

is_in_fov(view, x, y) == <<x, y>> \in view

\* The nearest visible AI-bearing fighter other than the player whose
\* distance is below max_range + 1; the lowest index among equals.
closest_monster(view, objs, max_range) ==
    LET cand == {k \in Ids(objs) :
                    /\ k # PLAYER
                    /\ IsSome(At(objs, k).fighter)
                    /\ IsSome(At(objs, k).ai)
                    /\ is_in_fov(view, At(objs, k).x, At(objs, k).y)
                    /\ DistSq(At(objs, PLAYER), At(objs, k).x, At(objs, k).y)
                          < (max_range + 1) * (max_range + 1)}
        d(k) == DistSq(At(objs, PLAYER), At(objs, k).x, At(objs, k).y)
    IN  IF cand = {} THEN None
        ELSE Some(CHOOSE k \in cand :
                    \A j \in cand : d(k) < d(j) \/ (d(k) = d(j) /\ k <= j))

\* What target_tile can return: None (right click, Escape) or a clicked tile
\* that is in view and, when a range is given, within it of the player.
target_tile(view, objs, max_range) ==
    {None} \cup
    {Some(t) : t \in {u \in view :
        IsNone(max_range) \/
        DistSq(At(objs, PLAYER), u[1], u[2]) <= Unwrap(max_range) * Unwrap(max_range)}}

\* What target_monster can return: it asks for tiles until one holds a
\* fighter other than the player (the first in store order), or None.
target_monster(view, objs, max_range) ==
    LET hits(t) == {k \in Ids(objs) : /\ pos(At(objs, k)) = t
                                      /\ IsSome(At(objs, k).fighter)
                                      /\ k # PLAYER}
        first(t) == CHOOSE k \in hits(t) : \A j \in hits(t) : k <= j
    IN  {None} \cup
        {Some(first(Unwrap(c))) : c \in {c \in target_tile(view, objs, max_range) :
                                            IsSome(c) /\ hits(Unwrap(c)) # {}}}

-----------------------------------------------------------------------------
(* Item effects.  Each yields the store, the inventory, the log and the    *)
(* UseResult.                                                              *)

Used(result, objs, inv, msgs) ==
    [result |-> result, objects |-> objs, inventory |-> inv, messages |-> msgs]

cast_heal_at_full_health(inv, msgs, objs) ==
    LET player == At(objs, PLAYER)
    IN  IF IsSome(player.fighter)
        THEN Used("UsedUp", Put(objs, PLAYER, heal(player, HEAL_AMOUNT, inv)), inv,
                  add(msgs, Msg("Your wounds start to feel better!", "", "", 0)))
        ELSE Used("Cancelled", objs, inv, msgs)

cast_heal(inv, msgs, objs) ==
    LET player == At(objs, PLAYER)
    IN  IF IsSome(player.fighter)
        THEN IF Unwrap(player.fighter).hp = max_hp(player, inv)
             THEN Used("Cancelled", objs, inv,
                       add(msgs, Msg("You are already at full health.", "", "", 0)))
             ELSE Used("UsedUp", Put(objs, PLAYER, heal(player, HEAL_AMOUNT, inv)), inv,
                       add(msgs, Msg("Your wounds start to feel better!", "", "", 0)))
        ELSE Used("Cancelled", objs, inv, msgs)

cast_lightning(view, inv, msgs, objs) ==
    LET monster_id == closest_monster(view, objs, LIGHTNING_RANGE)
    IN  IF IsSome(monster_id)
        THEN LET k == Unwrap(monster_id)
                 m == add(msgs, Msg("A lightning bolt strikes the {} with a loud thunger! The damage is {} hit points.",
                                    At(objs, k).name, "", LIGHTNING_DAMAGE))
                 r == take_damage(At(objs, k), LIGHTNING_DAMAGE, m)
                 o1 == Put(objs, k, r.obj)
             IN  Used("UsedUp",
                      IF IsSome(r.xp)
                      THEN Put(o1, PLAYER, [At(o1, PLAYER) EXCEPT
                                               !.fighter[1].xp = @ + Unwrap(r.xp)])
                      ELSE o1,
                      inv, r.messages)
        ELSE Used("Cancelled", objs, inv,
                  add(msgs, Msg("No enemy is close enough to strike.", "", "", 0)))

cast_confuse_forgetting_the_ai(monster_id, inv, msgs, objs) ==
    LET m == add(msgs, Msg("Left-click an enemy to confuse it, or right-click to cancel.", "", "", 0))
    IN  IF IsSome(monster_id)
        THEN LET k == Unwrap(monster_id)
             IN  Used("UsedUp",
                      Put(objs, k, [At(objs, k) EXCEPT
                                       !.ai = Some(Confused(Basic, CONFUSE_NUM_TURNS))]),
                      inv,
                      add(m, Msg("The eyes of {} look vacant, as he starts to stumble around!",
                                 At(objs, k).name, "", 0)))
        ELSE Used("Cancelled", objs, inv,
                  add(m, Msg("No enemy is close enough to strike.", "", "", 0)))

\* cast_confuse with target_monster's answer.
cast_confuse(monster_id, inv, msgs, objs) ==
    LET m == add(msgs, Msg("Left-click an enemy to confuse it, or right-click to cancel.", "", "", 0))
    IN  IF IsSome(monster_id)
        THEN LET k == Unwrap(monster_id)
                 old_ai == IF IsSome(At(objs, k).ai) THEN Unwrap(At(objs, k).ai) ELSE Basic
             IN  Used("UsedUp",
                      Put(objs, k, [At(objs, k) EXCEPT
                                       !.ai = Some(Confused(old_ai, CONFUSE_NUM_TURNS))]),
                      inv,
                      add(m, Msg("The eyes of {} look vacant, as he starts to stumble around!",
                                 At(objs, k).name, "", 0)))
        ELSE Used("Cancelled", objs, inv,
                  add(m, Msg("No enemy is close enough to strike.", "", "", 0)))

\* The loop of cast_fireball from store index k on: the store, the log and
\* the xp to gain.
RECURSIVE Burn(_, _, _, _, _, _)
Burn(k, x, y, objs, msgs, xp_to_gain) ==
    IF k >= Len(objs) THEN [objects |-> objs, messages |-> msgs, xp |-> xp_to_gain]
    ELSE LET obj == At(objs, k)
         IN  IF DistSq(obj, x, y) <= FIREBALL_RADIUS * FIREBALL_RADIUS /\ IsSome(obj.fighter)
             THEN LET m == add(msgs, Msg("The {} gets burned for {} hit points.",
                                         obj.name, "", FIREBALL_DAMAGE))
                      r == take_damage(obj, FIREBALL_DAMAGE, m)
                  IN  Burn(k + 1, x, y, Put(objs, k, r.obj), r.messages,
                           IF IsSome(r.xp) /\ k # PLAYER
                           THEN xp_to_gain + Unwrap(r.xp) ELSE xp_to_gain)
             ELSE Burn(k + 1, x, y, objs, msgs, xp_to_gain)

cast_fireball_sparing_the_caster(tile, inv, msgs, objs) ==
    LET m == add(msgs, Msg("Left-click a target tile for the fireball, or right-click to cancel.", "", "", 0))
    IN  IF IsNone(tile) THEN Used("Cancelled", objs, inv, m)
        ELSE LET b == Burn(1, Unwrap(tile)[1], Unwrap(tile)[2], objs,
                           add(m, Msg("The fireball explodes, burning everything within {} tiles!",
                                      "", "", FIREBALL_RADIUS)), 0)
             IN  Used("UsedUp",
                      Put(b.objects, PLAYER, [At(b.objects, PLAYER) EXCEPT
                                                 !.fighter[1].xp = @ + b.xp]),
                      inv, b.messages)

\* cast_fireball with target_tile's answer.
cast_fireball(tile, inv, msgs, objs) ==
    LET m == add(msgs, Msg("Left-click a target tile for the fireball, or right-click to cancel.", "", "", 0))
    IN  IF IsNone(tile) THEN Used("Cancelled", objs, inv, m)
        ELSE LET b == Burn(0, Unwrap(tile)[1], Unwrap(tile)[2], objs,
                           add(m, Msg("The fireball explodes, burning everything within {} tiles!",
                                      "", "", FIREBALL_RADIUS)), 0)
             IN  Used("UsedUp",
                      Put(b.objects, PLAYER, [At(b.objects, PLAYER) EXCEPT
                                                 !.fighter[1].xp = @ + b.xp]),
                      inv, b.messages)

toggle_equipment(inventory_id, inv, msgs, objs) ==
    LET it == At(inv, inventory_id)
    IN  IF IsNone(it.equipment) THEN Used("Cancelled", objs, inv, msgs)
        ELSE IF Unwrap(it.equipment).equipped
        THEN LET d == dequip(it, msgs)
             IN  Used("UsedAndKept", objs, Put(inv, inventory_id, d.obj), d.messages)
        ELSE LET current == get_equipped_in_slot(Unwrap(it.equipment).slot, inv)
                 d == IF IsSome(current) THEN dequip(At(inv, Unwrap(current)), msgs)
                      ELSE [obj |-> it, messages |-> msgs]
                 inv1 == IF IsSome(current) THEN Put(inv, Unwrap(current), d.obj) ELSE inv
                 e == equip(At(inv1, inventory_id), d.messages)
             IN  Used("UsedAndKept", objs, Put(inv1, inventory_id, e.obj), e.messages)

\* What the targeting dialogue of the item at inventory_id can answer.
Targets(inventory_id, view, inv, objs) ==
    LET item == At(inv, inventory_id).item
    IN  IF item = Some("Confuse") THEN target_monster(view, objs, Some(CONFUSE_RANGE))
        ELSE IF item = Some("Fireball") THEN target_tile(view, objs, None)
        ELSE {None}

\* use_item with the targeting dialogue's answer `target`.
use_item(inventory_id, target, view, inv, msgs, objs) ==
    LET item == At(inv, inventory_id).item
    IN  IF IsSome(item)
        THEN LET u == CASE Unwrap(item) = "Heal" -> cast_heal(inv, msgs, objs)
                        [] Unwrap(item) = "Lightning" -> cast_lightning(view, inv, msgs, objs)
                        [] Unwrap(item) = "Confuse" -> cast_confuse(target, inv, msgs, objs)
                        [] Unwrap(item) = "Fireball" -> cast_fireball(target, inv, msgs, objs)
                        [] Unwrap(item) \in {"Sword", "Shield"} ->
                               toggle_equipment(inventory_id, inv, msgs, objs)
             IN  CASE u.result = "UsedUp" ->
                        [objects |-> u.objects, inventory |-> remove(u.inventory, inventory_id),
                         messages |-> u.messages]
                   [] u.result = "UsedAndKept" ->
                        [objects |-> u.objects, inventory |-> u.inventory,
                         messages |-> u.messages]
                   [] u.result = "Cancelled" ->
                        [objects |-> u.objects, inventory |-> u.inventory,
                         messages |-> add(u.messages, Msg("Cancelled", "", "", 0))]
        ELSE [objects |-> objs, inventory |-> inv,
              messages |-> add(msgs, Msg("The {} cannot be used.",
                                         At(inv, inventory_id).name, "", 0))]

-----------------------------------------------------------------------------
(* The AI.  Each yields the new Ai, the store and the log.                 *)

ai_basic_unseen(monster_id, view, map, inv, msgs, objs) ==
    LET monster == At(objs, monster_id)
        player == At(objs, PLAYER)
    IN  IF DistSq(monster, player.x, player.y) > 4
        THEN [ai |-> Basic, messages |-> msgs, panic |-> FALSE,
              objects |-> move_towards(monster_id, player.x, player.y, map, objs)]
        ELSE IF IsSome(player.fighter) /\ Unwrap(player.fighter).hp > 0
        THEN LET two == mut_two(monster_id, PLAYER, objs)
                 r == attack(two[1], two[2], inv, msgs)
             IN  [ai |-> Basic, messages |-> r.messages, panic |-> FALSE,
                  objects |-> Put(Put(objs, monster_id, r.attacker), PLAYER, r.target)]
        ELSE [ai |-> Basic, messages |-> msgs, panic |-> FALSE, objects |-> objs]

ai_basic(monster_id, view, map, inv, msgs, objs) ==
    LET monster == At(objs, monster_id)
        player == At(objs, PLAYER)
    IN  IF is_in_fov(view, monster.x, monster.y)
        THEN IF DistSq(monster, player.x, player.y) > 4
             THEN [ai |-> Basic, messages |-> msgs, panic |-> FALSE,
                   objects |-> move_towards(monster_id, player.x, player.y, map, objs)]
             ELSE IF IsSome(player.fighter) /\ Unwrap(player.fighter).hp > 0
             THEN IF ~mut_two_ok(monster_id, PLAYER)
                  THEN [ai |-> Basic, messages |-> msgs, panic |-> TRUE, objects |-> objs]
                  ELSE LET two == mut_two(monster_id, PLAYER, objs)
                           r == attack(two[1], two[2], inv, msgs)
                       IN  [ai |-> Basic, messages |-> r.messages, panic |-> FALSE,
                            objects |-> Put(Put(objs, monster_id, r.attacker),
                                            PLAYER, r.target)]
             ELSE [ai |-> Basic, messages |-> msgs, panic |-> FALSE, objects |-> objs]
        ELSE [ai |-> Basic, messages |-> msgs, panic |-> FALSE, objects |-> objs]

ai_confused_until_zero(monster_id, map, msgs, objs, previous_ai, num_turns, dx, dy) ==
    IF num_turns > 0
    THEN [ai |-> Confused(previous_ai, num_turns - 1), messages |-> msgs,
          panic |-> FALSE, objects |-> move_by(monster_id, dx, dy, map, objs)]
    ELSE [ai |-> previous_ai, messages |-> msgs, panic |-> FALSE, objects |-> objs]

\* ai_confused with the two random draws dx, dy of gen_range(-1, 2).
ai_confused(monster_id, map, msgs, objs, previous_ai, num_turns, dx, dy) ==
    IF num_turns >= 0
    THEN [ai |-> Confused(previous_ai, num_turns - 1), messages |-> msgs,
          panic |-> FALSE, objects |-> move_by(monster_id, dx, dy, map, objs)]
    ELSE [ai |-> previous_ai, messages |-> msgs, panic |-> FALSE, objects |-> objs]

\* ai_take_turn: the Ai is taken out of the object, the turn is resolved,
\* and the resulting Ai is put back.
ai_take_turn(monster_id, view, map, inv, msgs, objs, dx, dy) ==
    IF IsSome(At(objs, monster_id).ai)
    THEN LET ai == Unwrap(At(objs, monster_id).ai)
             taken == Put(objs, monster_id, [At(objs, monster_id) EXCEPT !.ai = None])
             r == IF ai.tag = "Basic"
                  THEN ai_basic(monster_id, view, map, inv, msgs, taken)
                  ELSE ai_confused(monster_id, map, msgs, taken,
                                   ai.previous_ai, ai.num_turns, dx, dy)
         IN  [objects |-> Put(r.objects, monster_id,
                              [At(r.objects, monster_id) EXCEPT !.ai = Some(r.ai)]),
              messages |-> r.messages, panic |-> r.panic]
    ELSE [objects |-> objs, messages |-> msgs, panic |-> FALSE]

-----------------------------------------------------------------------------
(* The dungeon generator.  A random draw is a choice among its outcomes,   *)
(* so make_map is the set of the dungeons it can return.                   *)

Tile_empty == [blocked |-> FALSE, block_sight |-> FALSE]
Tile_wall == [blocked |-> TRUE, block_sight |-> TRUE]

\* rand's gen_range(low, high)
gen_range(low, high) == low .. (high - 1)

Rect_new(x, y, w, h) == [x1 |-> x, y1 |-> y, x2 |-> x + w, y2 |-> y + h]
center_at_the_corner(r) == <<r.x1, r.y1>>

center(r) == <<(r.x1 + r.x2) \div 2, (r.y1 + r.y2) \div 2>>
intersects_with_inside(r, other) ==
    /\ r.x1 < other.x2
    /\ r.x2 > other.x1
    /\ r.y1 < other.y2
    /\ r.y2 > other.y1

intersects_with(r, other) ==
    /\ r.x1 <= other.x2
    /\ r.x2 >= other.x1
    /\ r.y1 <= other.y2
    /\ r.y2 >= other.y1

Carve(map, tiles) ==
    [x \in DOMAIN map |->
        [y \in DOMAIN map[x] |-> IF <<x, y>> \in tiles THEN Tile_empty ELSE map[x][y]]]

create_room_with_its_border(room, map) ==
    Carve(map, (room.x1 .. room.x2) \X (room.y1 .. room.y2))

create_room(room, map) ==
    Carve(map, ((room.x1 + 1) .. (room.x2 - 1)) \X ((room.y1 + 1) .. (room.y2 - 1)))

Min(a, b) == IF a < b THEN a ELSE b
Max(a, b) == IF a > b THEN a ELSE b

create_h_tunnel(x1, x2, y, map) == Carve(map, (Min(x1, x2) .. Max(x1, x2)) \X {y})
create_v_tunnel_nowhere(y1, y2, x, map) == map

create_v_tunnel(y1, y2, x, map) == Carve(map, {x} \X (Min(y1, y2) .. Max(y1, y2)))

MonsterKinds == {"orc", "troll"}

Monster(kind, x, y) ==
    IF kind = "orc"
    THEN [GameObject_new(x, y, "o", "orc", "DESATURATED_GREEN", TRUE) EXCEPT
             !.fighter = Some(Fighter(10, 10, 0, 3, 35, "Monster")),
             !.ai = Some(Basic), !.alive = TRUE]
    ELSE [GameObject_new(x, y, "T", "troll", "DARKER_GREEN", TRUE) EXCEPT
             !.fighter = Some(Fighter(16, 16, 1, 4, 100, "Monster")),
             !.ai = Some(Basic), !.alive = TRUE]

ConsumableKinds == {"Heal", "Lightning", "Fireball", "Confuse"}

Consumable(kind, x, y) ==
    LET object == CASE kind = "Heal" -> GameObject_new(x, y, "!", "healing potion", "VIOLET", FALSE)
                    [] kind = "Lightning" -> GameObject_new(x, y, "#", "scroll of lightning bolt", "LIGHT_YELLOW", FALSE)
                    [] kind = "Fireball" -> GameObject_new(x, y, "#", "scroll of fireball", "LIGHT_YELLOW", FALSE)
                    [] kind = "Confuse" -> GameObject_new(x, y, "#", "scroll of confusion", "LIGHT_YELLOW", FALSE)
    IN  [object EXCEPT !.item = Some(kind), !.always_visible = TRUE]

\* The equipment items of the Item enum (Sword, Shield): a sword of power
\* bonus 3 for the right hand, a shield of defense bonus 1 for the left.
EquipmentItem(kind, x, y) ==
    IF kind = "Sword"
    THEN [GameObject_new(x, y, "/", "sword", "SKY", FALSE) EXCEPT
             !.item = Some("Sword"), !.always_visible = TRUE,
             !.equipment = Some(Equipment("RightHand", 3, 0, 0))]
    ELSE [GameObject_new(x, y, "[", "shield", "DARKER_ORANGE", FALSE) EXCEPT
             !.item = Some("Shield"), !.always_visible = TRUE,
             !.equipment = Some(Equipment("LeftHand", 0, 1, 0))]

\* The tiles place_objects draws a position from: gen_range(room.x1 + 1,
\* room.x2) by gen_range(room.y1 + 1, room.y2), of which the model draws
\* the room's first interior tile and its centre.
SpawnTiles(room) ==
    {t \in gen_range(room.x1 + 1, room.x2) \X gen_range(room.y1 + 1, room.y2) :
        t = <<room.x1 + 1, room.y1 + 1>> \/ t = center(room)}

\* The stores the monster loop of place_objects can leave after k more draws.
RECURSIVE PlaceMonsters(_, _, _, _)
PlaceMonsters(k, room, map, objs) ==
    IF k = 0 THEN {objs}
    ELSE UNION {IF is_blocked(t[1], t[2], map, objs)
                THEN PlaceMonsters(k - 1, room, map, objs)
                ELSE UNION {PlaceMonsters(k - 1, room, map,
                                          Append(objs, Monster(kind, t[1], t[2]))) :
                            kind \in MonsterKinds} :
                t \in SpawnTiles(room)}

\* The stores the item loop of place_objects can leave after k more draws.
RECURSIVE PlaceItems(_, _, _, _)
PlaceItems(k, room, map, objs) ==
    IF k = 0 THEN {objs}
    ELSE UNION {IF is_blocked(t[1], t[2], map, objs)
                THEN PlaceItems(k - 1, room, map, objs)
                ELSE UNION {PlaceItems(k - 1, room, map,
                                       Append(objs, Consumable(kind, t[1], t[2]))) :
                            kind \in ConsumableKinds} :
                t \in SpawnTiles(room)}

place_objects(room, map, objs) ==
    UNION {UNION {PlaceItems(num_items, room, map, o1) :
                  num_items \in gen_range(0, MAX_ROOM_ITEMS + 1)} :
           o1 \in UNION {PlaceMonsters(num_monsters, room, map, objs) :
                         num_monsters \in gen_range(0, MAX_ROOM_MONSTERS + 1)}}

\* The candidate rooms one iteration of make_map's loop can draw on a map
\* of the given size, for the given limits of a room's size.
RoomDrawsIn(width, height, min_size, max_size) ==
    UNION {UNION {{Rect_new(x, y, w, h) :
                   <<x, y>> \in gen_range(0, width - w) \X gen_range(0, height - h)} :
                  h \in gen_range(min_size, max_size + 1)} :
           w \in gen_range(min_size, max_size + 1)}

\* The candidate rooms one iteration of make_map's loop can draw.
RoomDraws == RoomDrawsIn(MAP_WIDTH, MAP_HEIGHT, ROOM_MIN_SIZE, ROOM_MAX_SIZE)

\* One accepted room: carved, populated, and joined to the one before.
AddRoom(new_room, g) ==
    LET m1 == create_room(new_room, g.map)
        c == center(new_room)
    IN  IF g.rooms = << >>
        THEN {[map |-> m1, rooms |-> <<new_room>>,
               objects |-> Put(o1, PLAYER, set_pos(At(o1, PLAYER), c[1], c[2]))] :
              o1 \in place_objects(new_room, m1, g.objects)}
        ELSE LET prev == center(g.rooms[Len(g.rooms)])
                 h_first == create_v_tunnel(prev[2], c[2], c[1],
                                create_h_tunnel(prev[1], c[1], prev[2], m1))
                 v_first == create_h_tunnel(prev[1], c[1], c[2],
                                create_v_tunnel(prev[2], c[2], prev[1], m1))
             IN  {[map |-> m, rooms |-> Append(g.rooms, new_room), objects |-> o1] :
                  m \in {h_first, v_first}, o1 \in place_objects(new_room, m1, g.objects)}

\* What k more iterations of make_map's room loop can leave.
RECURSIVE Rooms(_, _)
Rooms(k, g) ==
    IF k = 0 THEN {g}
    ELSE UNION {IF \E n \in 1 .. Len(g.rooms) : intersects_with(new_room, g.rooms[n])
                THEN Rooms(k - 1, g)
                ELSE UNION {Rooms(k - 1, g1) : g1 \in AddRoom(new_room, g)} :
                new_room \in RoomDraws}

make_map_keeping_the_objects(objs) ==
    LET walls == [x \in 0 .. (MAP_WIDTH - 1) |-> [y \in 0 .. (MAP_HEIGHT - 1) |-> Tile_wall]]
    IN  {LET last_room == center(g.rooms[Len(g.rooms)])
             stairs == [GameObject_new(last_room[1], last_room[2], "<", "stairs", "WHITE", FALSE)
                           EXCEPT !.always_visible = TRUE]
         IN  [map |-> g.map, objects |-> Append(g.objects, stairs)] :
         g \in Rooms(MAX_ROOMS, [map |-> walls, rooms |-> << >>, objects |-> objs])}

make_map(objs) ==
    LET walls == [x \in 0 .. (MAP_WIDTH - 1) |-> [y \in 0 .. (MAP_HEIGHT - 1) |-> Tile_wall]]
        kept == SelectSeq(objs, LAMBDA o : o.name = "player")
    IN  {LET last_room == center(g.rooms[Len(g.rooms)])
             stairs == [GameObject_new(last_room[1], last_room[2], "<", "stairs", "WHITE", FALSE)
                           EXCEPT !.always_visible = TRUE]
         IN  [map |-> g.map, objects |-> Append(g.objects, stairs)] :
         g \in Rooms(MAX_ROOMS, [map |-> walls, rooms |-> << >>, objects |-> kept])}

\* tcod's compute_fov(x, y, TORCH_RADIUS, ..): the tiles within the radius.
\* A level of the model is one open room, so nothing stands in the way.
compute_fov(map, x, y) ==
    {t \in (DOMAIN map) \X (DOMAIN map[0]) :
        (t[1] - x) * (t[1] - x) + (t[2] - y) * (t[2] - y) <= TORCH_RADIUS * TORCH_RADIUS}

-----------------------------------------------------------------------------
(* The game: new_game / load_game, then play_game's loop.                  *)

\* new_game's player.
NewPlayer ==
    [GameObject_new(0, 0, "@", "player", "WHITE", TRUE) EXCEPT
        !.alive = TRUE, !.fighter = Some(Fighter(100, 100, 1, 4, 0, "Player"))]

\* A saved game's player: at level 2 after one level-up spent on defense,
\* wounded down to 1 hp, 10 xp short of the next level.
Veteran ==
    [NewPlayer EXCEPT !.level = 2, !.fighter[1].base_defense = 2,
                      !.fighter[1].hp = 1, !.fighter[1].xp = 490]

\* A saved game's inventory: a sword and a shield, both equipped.
SavedInventory ==
    <<[EquipmentItem("Sword", 0, 0) EXCEPT !.equipment[1].equipped = TRUE],
      [EquipmentItem("Shield", 0, 0) EXCEPT !.equipment[1].equipped = TRUE]>>

\* What play_game starts with: new_game's player and empty inventory, or
\* the player and inventory load_game restores.
Starts ==
    {[player |-> NewPlayer, inventory |-> << >>],
     [player |-> Veteran, inventory |-> SavedInventory]}


Keys == {"Up", "Down", "Left", "Right", "Home", "PageUp", "End", "PageDown"}

Delta_with_a_still_key(key) ==
    CASE key = "Up" -> <<0, 0>>
      [] key = "Down" -> <<0, 1>>
      [] key = "Left" -> <<-1, 0>>
      [] key = "Right" -> <<1, 0>>
      [] key = "Home" -> <<-1, -1>>
      [] key = "PageUp" -> <<1, -1>>
      [] key = "End" -> <<-1, 1>>
      [] key = "PageDown" -> <<1, 1>>

Delta(key) ==
    CASE key = "Up" -> <<0, -1>>
      [] key = "Down" -> <<0, 1>>
      [] key = "Left" -> <<-1, 0>>
      [] key = "Right" -> <<1, 0>>
      [] key = "Home" -> <<-1, -1>>
      [] key = "PageUp" -> <<1, -1>>
      [] key = "End" -> <<-1, 1>>
      [] key = "PageDown" -> <<1, 1>>

Did(step, key, n) == [step |-> step, key |-> key, n |-> n]

Init ==
    \E start \in Starts : \E g \in make_map(<<start.player>>) :
        /\ objects = g.objects
        /\ game_map = g.map
        /\ inventory = start.inventory
        /\ iteration = 0
        /\ dungeon_level = 1
        /\ messages = <<Msg("Welcom stranger! Prepare to parish in the Tombs of the Ancient Kinds.", "", "", 0)>>
        /\ fov = {}
        /\ previous_player_position = <<-1, -1>>
        /\ player_action = "DidntTakeTurn"
        /\ pc = "render"
        /\ id = 0
        /\ turns = << >>
        /\ last = Did("new_game", "", 0)

\* while !tcod.root.window_closed()
WindowClosed ==
    /\ pc = "render"
    /\ pc' = "exited"
    /\ last' = Did("window_closed", "", 0)
    /\ messages' = << >>
    /\ turns' = << >>
    /\ UNCHANGED <<objects, inventory, game_map, dungeon_level, fov,
                   previous_player_position, player_action, id, iteration>>

\* render_all(tcod, game, &objects, fov_recompute)
Render ==
    /\ pc = "render"
    /\ iteration < MaxIter
    /\ iteration' = iteration + 1
    /\ fov' = IF previous_player_position # pos(At(objects, PLAYER))
              THEN compute_fov(game_map, At(objects, PLAYER).x, At(objects, PLAYER).y)
              ELSE fov
    /\ pc' = "level_up"
    /\ last' = Did("render", "", 0)
    /\ messages' = << >>
    /\ turns' = << >>
    /\ UNCHANGED <<objects, inventory, game_map, dungeon_level,
                   previous_player_position, player_action, id>>

\* level_up(tcod, game, objects)
LevelUp ==
    /\ pc = "level_up"
    /\ \E choice \in IF At(objects, PLAYER).fighter[1].xp >= level_up_xp(At(objects, PLAYER))
                     THEN 0 .. 2 ELSE {0} :
          LET r == level_up(choice, << >>, objects)
          IN  /\ objects' = r.objects
              /\ messages' = r.messages
              /\ last' = Did("level_up", "", choice)
    /\ pc' = "handle_keys"
    /\ UNCHANGED <<inventory, game_map, dungeon_level, fov,
                   previous_player_position, player_action, id, iteration, turns>>

\* play_game's test for letting the monsters take their turn.
AiPhaseAlways(objs, action) == TRUE

AiPhaseRuns_whatever_the_action(objs, action) == At(objs, PLAYER).alive

AiPhaseRuns(objs, action) ==
    At(objs, PLAYER).alive /\ action # "DidntTakeTurn"

\* The rest of the loop body once handle_keys has returned `action`, the
\* world being w.
AfterKeys(key, n, action, w) ==
    /\ objects' = w.objects
    /\ inventory' = w.inventory
    /\ messages' = w.messages
    /\ game_map' = w.map
    /\ dungeon_level' = w.dungeon_level
    /\ previous_player_position' = pos(At(objects, PLAYER))
    /\ player_action' = action
    /\ last' = Did("handle_keys", key, n)
    /\ turns' = << >>
    /\ id' = 0
    /\ fov' = fov
    /\ iteration' = iteration
    /\ pc' = IF w.panic THEN "panicked"
             ELSE IF action = "Exit" THEN "exited"
             ELSE IF AiPhaseRuns(w.objects, action) THEN "ai"
             ELSE "render"

World(objs, inv, msgs) ==
    [objects |-> objs, inventory |-> inv, messages |-> msgs, map |-> game_map,
     dungeon_level |-> dungeon_level, panic |-> FALSE]

\* Escape
KeyExit ==
    /\ pc = "handle_keys"
    /\ AfterKeys("Escape", 0, "Exit", World(objects, inventory, << >>))

\* The movement keys
KeyMove ==
    /\ pc = "handle_keys"
    /\ At(objects, PLAYER).alive
    /\ \E key \in Keys :
          LET r == player_move_or_attack(Delta(key)[1], Delta(key)[2], game_map,
                                         inventory, << >>, objects)
          IN  AfterKeys(key, 0, "TookTurn",
                        [World(r.objects, inventory, r.messages) EXCEPT !.panic = r.panic])

\* NumPad5
KeyWait ==
    /\ pc = "handle_keys"
    /\ At(objects, PLAYER).alive
    /\ AfterKeys("NumPad5", 0, "TookTurn", World(objects, inventory, << >>))

\* The object "g" picks up: the first one on the player's tile with an Item.
item_on_any_tile(objs) ==
    position({k \in Ids(objs) : pos(At(objs, k)) = pos(At(objs, PLAYER))})

item_on_player_tile(objs) ==
    position({k \in Ids(objs) : /\ pos(At(objs, k)) = pos(At(objs, PLAYER))
                                /\ IsSome(At(objs, k).item)})

\* "g"
KeyPickUp ==
    /\ pc = "handle_keys"
    /\ At(objects, PLAYER).alive
    /\ LET item_id == item_on_player_tile(objects)
       IN  IF IsSome(item_id)
           THEN LET r == pick_item_up(Unwrap(item_id), inventory, << >>, objects)
                IN  AfterKeys("g", Unwrap(item_id), "DidntTakeTurn",
                              World(r.objects, r.inventory, r.messages))
           ELSE AfterKeys("g", -1, "DidntTakeTurn", World(objects, inventory, << >>))

\* What inventory_menu can answer.
inventory_menu(inv) == {None} \cup {Some(k) : k \in Ids(inv)}

\* "d"
KeyDrop ==
    /\ pc = "handle_keys"
    /\ At(objects, PLAYER).alive
    /\ \E inventory_index \in inventory_menu(inventory) :
          IF IsSome(inventory_index)
          THEN LET r == drop_item(Unwrap(inventory_index), inventory, << >>, objects)
               IN  AfterKeys("d", Unwrap(inventory_index), "DidntTakeTurn",
                             World(r.objects, r.inventory, r.messages))
          ELSE AfterKeys("d", -1, "DidntTakeTurn", World(objects, inventory, << >>))

\* "i"
KeyUse ==
    /\ pc = "handle_keys"
    /\ At(objects, PLAYER).alive
    /\ \E inventory_index \in inventory_menu(inventory) :
          IF IsSome(inventory_index)
          THEN \E target \in Targets(Unwrap(inventory_index), fov, inventory, objects) :
                  LET r == use_item(Unwrap(inventory_index), target, fov,
                                    inventory, << >>, objects)
                  IN  AfterKeys("i", Unwrap(inventory_index), "DidntTakeTurn",
                                World(r.objects, r.inventory, r.messages))
          ELSE AfterKeys("i", -1, "DidntTakeTurn", World(objects, inventory, << >>))

\* next_level: the worlds it can leave.
next_level(inv, msgs, objs, depth) ==
    LET player == At(objs, PLAYER)
        heal_hp == IF IsSome(player.fighter)
                   THEN Unwrap(player.fighter).base_max_hp \div 2 ELSE 0
        rested == Put(objs, PLAYER, heal(player, heal_hp, inv))
        m == add(add(msgs, Msg("You take a moment to rest, and recover your strength.", "", "", 0)),
                 Msg("After a rare moment of peace, you descend deeper into the heart of the dundeon...", "", "", 0))
    IN  {[objects |-> g.objects, inventory |-> inv, messages |-> m, map |-> g.map,
          dungeon_level |-> depth + 1, panic |-> FALSE] : g \in make_map(rested)}

\* "<"
KeyStairs ==
    /\ pc = "handle_keys"
    /\ At(objects, PLAYER).alive
    /\ IF \E k \in Ids(objects) : /\ pos(At(objects, k)) = pos(At(objects, PLAYER))
                                  /\ At(objects, k).name = "stairs"
       THEN \E w \in next_level(inventory, << >>, objects, dungeon_level) :
               AfterKeys("<", 1, "DidntTakeTurn", w)
       ELSE AfterKeys("<", 0, "DidntTakeTurn", World(objects, inventory, << >>))

\* Alt+Enter, "c", any other key, and every key but Escape once the player
\* is dead.
KeyOther ==
    /\ pc = "handle_keys"
    /\ AfterKeys("other", 0, "DidntTakeTurn", World(objects, inventory, << >>))

\* One iteration of the AI phase's loop: for id in 0..objects.len()
AiTurn ==
    /\ pc = "ai"
    /\ id < Len(objects)
    /\ \E dx \in gen_range(-1, 2), dy \in gen_range(-1, 2) :
          /\ \/ /\ IsSome(At(objects, id).ai)
                /\ Unwrap(At(objects, id).ai).tag = "Confused"
                /\ Unwrap(At(objects, id).ai).num_turns >= 0
             \/ (dx = 0 /\ dy = 0)
          /\ LET r == ai_take_turn(id, fov, game_map, inventory, << >>, objects, dx, dy)
             IN  /\ objects' = r.objects
                 /\ messages' = r.messages
                 /\ pc' = IF r.panic THEN "panicked"
                          ELSE IF id + 1 < Len(objects) THEN "ai" ELSE "render"
    /\ turns' = IF IsSome(At(objects, id).ai) THEN Append(turns, id) ELSE turns
    /\ id' = IF id + 1 < Len(objects) THEN id + 1 ELSE 0
    /\ last' = Did("ai_take_turn", "", id)
    /\ UNCHANGED <<inventory, game_map, dungeon_level, fov,
                   previous_player_position, player_action, iteration>>

Next ==
    \/ WindowClosed
    \/ Render
    \/ LevelUp
    \/ KeyExit
    \/ KeyMove
    \/ KeyWait
    \/ KeyPickUp
    \/ KeyDrop
    \/ KeyUse
    \/ KeyStairs
    \/ KeyOther
    \/ AiTurn

Spec == Init /\ [][Next]_vars

-----------------------------------------------------------------------------
(* play_game on games load_game restores from a save made in mid-game.     *)

\* A saved player at level 2 (the level-up spent on power) whose last blast
\* brought in xp for two more levels.
Champion ==
    [NewPlayer EXCEPT !.level = 2, !.fighter[1].base_power = 5,
                      !.fighter[1].xp = 1160]

\* A saved inventory of two scrolls of confusion.
SavedScrolls == <<Consumable("Confuse", 0, 0), Consumable("Confuse", 0, 0)>>

\* The saved games: the Champion on a level with nothing but the stairs, or
\* new_game's player with the two scrolls on a level with one monster, which
\* is Basic or in its last turns of confusion.
LoadedStarts ==
    {[objects |-> g.objects, map |-> g.map, inventory |-> << >>] :
        g \in {h \in make_map(<<Champion>>) : Len(h.objects) = 2}}
    \cup
    {[objects |-> Put(g.objects, 1, [At(g.objects, 1) EXCEPT !.ai = Some(ai)]),
      map |-> g.map, inventory |-> SavedScrolls] :
        g \in {h \in make_map(<<NewPlayer>>) :
                  Len(h.objects) = 3 /\ IsSome(At(h.objects, 1).ai)},
        ai \in {Basic, Confused(Basic, 0)}}

InitLoaded ==
    \E start \in LoadedStarts :
        /\ objects = start.objects
        /\ game_map = start.map
        /\ inventory = start.inventory
        /\ iteration = 0
        /\ dungeon_level = 1
        /\ messages = << >>
        /\ fov = {}
        /\ previous_player_position = <<-1, -1>>
        /\ player_action = "DidntTakeTurn"
        /\ pc = "render"
        /\ id = 0
        /\ turns = << >>
        /\ last = Did("load_game", "", 0)

SpecLoaded == InitLoaded /\ [][Next]_vars

-----------------------------------------------------------------------------
(* play_game on games saved in mid-fight: new_game's player with the two   *)
(* scrolls of confusion on a level of one or two monsters and no item, the *)
(* first monster of the store down to its last hit point.                  *)

WoundedStarts ==
    {[objects |-> Put(g.objects, 1, [At(g.objects, 1) EXCEPT !.fighter[1].hp = 1]),
      map |-> g.map, inventory |-> SavedScrolls] :
        g \in {h \in make_map(<<NewPlayer>>) :
                  /\ Len(h.objects) >= 3
                  /\ \A k \in 1 .. (Len(h.objects) - 2) : IsSome(At(h.objects, k).ai)}}

InitWounded ==
    \E start \in WoundedStarts :
        /\ objects = start.objects
        /\ game_map = start.map
        /\ inventory = start.inventory
        /\ iteration = 0
        /\ dungeon_level = 1
        /\ messages = << >>
        /\ fov = {}
        /\ previous_player_position = <<-1, -1>>
        /\ player_action = "DidntTakeTurn"
        /\ pc = "render"
        /\ id = 0
        /\ turns = << >>
        /\ last = Did("load_game", "", 0)

SpecWounded == InitWounded /\ [][Next]_vars

-----------------------------------------------------------------------------
(* use_item on its own, in a room wide enough for the ranges of the        *)
(* scrolls: a game loaded with the player in the corner of an open room,   *)
(* one or two monsters in it and lightning scrolls in the inventory.       *)

\* The room: open tiles 1 .. FieldSpan in both directions inside a wall.
FieldSpan == LIGHTNING_RANGE + 2

Field ==
    [x \in 0 .. FieldSpan + 1 |-> [y \in 0 .. FieldSpan + 1 |->
        IF x \in 1 .. FieldSpan /\ y \in 1 .. FieldSpan THEN Tile_empty ELSE Tile_wall]]

\* Where the monsters stand, as offsets from the player: next to it, at
\* LIGHTNING_RANGE twice, between LIGHTNING_RANGE and LIGHTNING_RANGE + 1,
\* and at LIGHTNING_RANGE + 1.
FieldSpots == {<<1, 0>>, <<3, 4>>, <<LIGHTNING_RANGE, 0>>, <<LIGHTNING_RANGE, 1>>,
               <<LIGHTNING_RANGE + 1, 0>>}

\* The monsters of the room: one of either kind, or two orcs apart.
FieldMonsters ==
    {<<Monster(kind, 1 + s[1], 1 + s[2])>> : kind \in MonsterKinds, s \in FieldSpots}
    \cup
    {<<Monster("orc", 1 + p[1][1], 1 + p[1][2]), Monster("orc", 1 + p[2][1], 1 + p[2][2])>> :
        p \in {q \in FieldSpots \X FieldSpots : q[1] # q[2]}}

\* The field of view: the whole room, or what compute_fov gives.
FieldViews ==
    {{<<x, y>> : x \in 0 .. FieldSpan + 1, y \in 0 .. FieldSpan + 1},
     compute_fov(Field, 1, 1)}

InitField ==
    \E monsters \in FieldMonsters, view \in FieldViews :
        /\ objects = <<[NewPlayer EXCEPT !.x = 1, !.y = 1]>> \o monsters
        /\ game_map = Field
        /\ inventory = <<Consumable("Lightning", 0, 0), Consumable("Lightning", 0, 0)>>
        /\ iteration = 0
        /\ dungeon_level = 1
        /\ messages = << >>
        /\ fov = view
        /\ previous_player_position = <<1, 1>>
        /\ player_action = "DidntTakeTurn"
        /\ pc = "use_item"
        /\ id = 0
        /\ turns = << >>
        /\ last = Did("load_game", "", 0)

\* use_item(inventory_id, ...) on an item of the inventory.
UseHeld ==
    /\ pc = "use_item"
    /\ \E inventory_id \in Ids(inventory) :
          \E target \in Targets(inventory_id, fov, inventory, objects) :
             LET r == use_item(inventory_id, target, fov, inventory, << >>, objects)
             IN  /\ objects' = r.objects
                 /\ inventory' = r.inventory
                 /\ messages' = r.messages
                 /\ last' = Did("use_item", Unwrap(At(inventory, inventory_id).item),
                                inventory_id)
    /\ UNCHANGED <<game_map, dungeon_level, fov, previous_player_position,
                   player_action, pc, id, turns, iteration>>

NextField == UseHeld

SpecField == InitField /\ [][NextField]_vars

-----------------------------------------------------------------------------
(* pick_item_up, drop_item and use_item on their own: a game loaded with   *)
(* the player standing on a tile where items lie.                          *)

\* A full inventory: INVENTORY_MAX healing potions, picked up where the
\* player stands.
FullPack == [k \in 1 .. INVENTORY_MAX |-> Consumable("Heal", 1, 1)]

\* The saved games: what the player holds and what lies on its tile.
KitStarts ==
    {[inventory |-> << >>,
      floor |-> <<EquipmentItem("Sword", 1, 1), EquipmentItem("Sword", 1, 1),
                  EquipmentItem("Shield", 1, 1), Consumable("Heal", 1, 1)>>],
     [inventory |-> SavedInventory,
      floor |-> <<EquipmentItem("Sword", 1, 1)>>],
     [inventory |-> FullPack,
      floor |-> <<Consumable("Heal", 1, 1), EquipmentItem("Shield", 1, 1)>>]}

InitKit ==
    \E start \in KitStarts :
        /\ objects = <<[NewPlayer EXCEPT !.x = 1, !.y = 1]>> \o start.floor
        /\ game_map = Field
        /\ inventory = start.inventory
        /\ iteration = 0
        /\ dungeon_level = 1
        /\ messages = << >>
        /\ fov = compute_fov(Field, 1, 1)
        /\ previous_player_position = <<1, 1>>
        /\ player_action = "DidntTakeTurn"
        /\ pc = "use_item"
        /\ id = 0
        /\ turns = << >>
        /\ last = Did("load_game", "", 0)

\* pick_item_up(item_id, ...) on the item handle_keys finds on the player's
\* tile.
PickUpHere ==
    /\ pc = "use_item"
    /\ IsSome(item_on_player_tile(objects))
    /\ LET item_id == Unwrap(item_on_player_tile(objects))
           r == pick_item_up(item_id, inventory, << >>, objects)
       IN  /\ objects' = r.objects
           /\ inventory' = r.inventory
           /\ messages' = r.messages
           /\ last' = Did("pick_item_up", "", item_id)
    /\ UNCHANGED <<game_map, dungeon_level, fov, previous_player_position,
                   player_action, pc, id, turns, iteration>>

\* drop_item(inventory_id, ...) on an item of the inventory.
DropHeld ==
    /\ pc = "use_item"
    /\ \E inventory_id \in Ids(inventory) :
          LET r == drop_item(inventory_id, inventory, << >>, objects)
          IN  /\ objects' = r.objects
              /\ inventory' = r.inventory
              /\ messages' = r.messages
              /\ last' = Did("drop_item", "", inventory_id)
    /\ UNCHANGED <<game_map, dungeon_level, fov, previous_player_position,
                   player_action, pc, id, turns, iteration>>

NextKit == PickUpHere \/ DropHeld \/ UseHeld

SpecKit == InitKit /\ [][NextKit]_vars

-----------------------------------------------------------------------------
(* GameObject::equip and GameObject::dequip on their own: one object, and  *)
(* the two methods called on it in any order.                              *)

\* The receivers: the players, the stairs, the monsters, their remains, the
\* monsters carrying an Equipment without being an item, the consumables, and the
\* sword and the shield, unequipped and equipped.
Receivers ==
    {NewPlayer, Veteran, GameObject_new(0, 0, "<", "stairs", "WHITE", FALSE)}
    \cup {Monster(kind, 0, 0) : kind \in MonsterKinds}
    \cup {monster_death(Monster(kind, 0, 0), << >>).obj : kind \in MonsterKinds}
    \cup {[Monster(kind, 0, 0) EXCEPT !.equipment = Some(Equipment("LeftHand", 0, 1, 0))] :
             kind \in MonsterKinds}
    \cup {Consumable(kind, 0, 0) : kind \in ConsumableKinds}
    \cup {EquipmentItem(kind, 0, 0) : kind \in {"Sword", "Shield"}}
    \cup {SavedInventory[k] : k \in 1 .. Len(SavedInventory)}

InitEquip ==
    \E c \in Receivers :
        /\ objects = <<c>>
        /\ game_map = [x \in 0 .. 0 |-> [y \in 0 .. 0 |-> Tile_empty]]
        /\ inventory = << >>
        /\ iteration = 0
        /\ dungeon_level = 1
        /\ messages = << >>
        /\ fov = {}
        /\ previous_player_position = <<-1, -1>>
        /\ player_action = "DidntTakeTurn"
        /\ pc = "equip"
        /\ id = 0
        /\ turns = << >>
        /\ last = Did("new", "", 0)

\* self.equip(messages)
ApplyEquip ==
    /\ pc = "equip"
    /\ iteration < MaxIter
    /\ LET r == equip(At(objects, 0), << >>)
       IN  /\ objects' = <<r.obj>>
           /\ messages' = r.messages
    /\ last' = Did("equip", "", 0)
    /\ iteration' = iteration + 1
    /\ UNCHANGED <<inventory, game_map, dungeon_level, fov,
                   previous_player_position, player_action, pc, id, turns>>

\* self.dequip(messages)
ApplyDequip ==
    /\ pc = "equip"
    /\ iteration < MaxIter
    /\ LET r == dequip(At(objects, 0), << >>)
       IN  /\ objects' = <<r.obj>>
           /\ messages' = r.messages
    /\ last' = Did("dequip", "", 0)
    /\ iteration' = iteration + 1
    /\ UNCHANGED <<inventory, game_map, dungeon_level, fov,
                   previous_player_position, player_action, pc, id, turns>>

NextEquip == ApplyEquip \/ ApplyDequip

SpecEquip == InitEquip /\ [][NextEquip]_vars

-----------------------------------------------------------------------------
(* mut_two on its own: a store and two indices into it.                    *)

\* The stores: those of the levels make_map can build for a new game.
Stores == {g.objects : g \in make_map(<<NewPlayer>>)}

InitTwo ==
    \E store \in Stores :
        /\ objects = store
        /\ game_map = [x \in 0 .. 0 |-> [y \in 0 .. 0 |-> Tile_empty]]
        /\ inventory = << >>
        /\ iteration = 0
        /\ dungeon_level = 1
        /\ messages = << >>
        /\ fov = {}
        /\ previous_player_position = <<-1, -1>>
        /\ player_action = "DidntTakeTurn"
        /\ pc = "mut_two"
        /\ id = 0
        /\ turns = << >>
        /\ last = Did("new", << >>, << >>)

\* mut_two(first_index, second_index, objects): last records the indices
\* and the pair returned; a failed assertion ends the program.
MutTwo ==
    /\ pc = "mut_two"
    /\ \E first_index \in Ids(objects), second_index \in Ids(objects) :
          IF mut_two_ok(first_index, second_index)
          THEN /\ last' = Did("mut_two", mut_two(first_index, second_index, objects),
                              <<first_index, second_index>>)
               /\ pc' = pc
          ELSE /\ last' = Did("mut_two", << >>, <<first_index, second_index>>)
               /\ pc' = "panicked"
    /\ UNCHANGED <<objects, inventory, messages, game_map, dungeon_level, fov,
                   previous_player_position, player_action, id, turns, iteration>>

NextTwo == MutTwo

SpecTwo == InitTwo /\ [][NextTwo]_vars

-----------------------------------------------------------------------------
(* make_map on its own, one iteration of its room loop at a time, on a map *)
(* with space for several rooms.  last.key holds the rooms accepted.       *)

\* The map is DigWidth by DigHeight, a room's width and height are drawn
\* from DigRoomMin .. DigRoomMax, and the loop runs DigRooms times.
DigWidth == 8
DigHeight == 6
DigRoomMin == 2
DigRoomMax == 3
DigRooms == 3

InitDig ==
    /\ objects = <<NewPlayer>>
    /\ game_map = [x \in 0 .. (DigWidth - 1) |-> [y \in 0 .. (DigHeight - 1) |-> Tile_wall]]
    /\ inventory = << >>
    /\ iteration = 0
    /\ dungeon_level = 1
    /\ messages = << >>
    /\ fov = {}
    /\ previous_player_position = <<-1, -1>>
    /\ player_action = "DidntTakeTurn"
    /\ pc = "make_map"
    /\ id = 0
    /\ turns = << >>
    /\ last = Did("make_map", << >>, 0)

\* One iteration of the room loop: a room is drawn and, unless it
\* intersects a room accepted before, carved, populated (with draws of no
\* monster and no item) and joined to the room before it.
DigRoom ==
    /\ pc = "make_map"
    /\ iteration < DigRooms
    /\ \E new_room \in RoomDrawsIn(DigWidth, DigHeight, DigRoomMin, DigRoomMax) :
          IF \E n \in 1 .. Len(last.key) : intersects_with(new_room, last.key[n])
          THEN /\ last' = Did("make_map", last.key, 0)
               /\ UNCHANGED <<game_map, objects>>
          ELSE \E g \in AddRoom(new_room, [map |-> game_map, rooms |-> last.key,
                                             objects |-> objects]) :
                  /\ Len(g.objects) = Len(objects)
                  /\ game_map' = g.map
                  /\ objects' = g.objects
                  /\ last' = Did("make_map", g.rooms, 1)
    /\ iteration' = iteration + 1
    /\ UNCHANGED <<inventory, messages, dungeon_level, fov, previous_player_position,
                   player_action, pc, id, turns>>

\* After the loop: the stairs are put at the centre of the last room.
PlaceStairs ==
    /\ pc = "make_map"
    /\ iteration = DigRooms
    /\ last.key # << >>
    /\ LET last_room == center(last.key[Len(last.key)])
       IN  objects' = Append(objects,
               [GameObject_new(last_room[1], last_room[2], "<", "stairs", "WHITE", FALSE)
                   EXCEPT !.always_visible = TRUE])
    /\ pc' = "made"
    /\ UNCHANGED <<inventory, messages, game_map, dungeon_level, fov,
                   previous_player_position, player_action, id, turns, iteration, last>>

NextDig == DigRoom \/ PlaceStairs

SpecDig == InitDig /\ [][NextDig]_vars

-----------------------------------------------------------------------------
(* The transition tables of transition.rs, and from_dungeon_level on its   *)
(* own: a table and a depth are drawn, then looked up.  last.key holds the *)
(* table, dungeon_level the depth, last.n the value returned.              *)

Transition(level, value) == [level |-> level, value |-> value]

from_dungeon_level_first_match(table, level) ==
    LET hits == {k \in 1 .. Len(table) : level >= table[k].level}
    IN  IF hits = {} THEN 0
        ELSE table[CHOOSE k \in hits : \A j \in hits : k <= j].value

\* table.iter().rev().find(|t| level >= t.level).map_or(0, |t| t.value)
from_dungeon_level(table, level) ==
    LET hits == {k \in 1 .. Len(table) : level >= table[k].level}
    IN  IF hits = {} THEN 0
        ELSE table[CHOOSE k \in hits : \A j \in hits : k >= j].value

\* A table has up to TableLen entries, of levels 1 .. TableLevel and values
\* 0 .. TableValue; the depth is one of 0 .. TableLevel + 1.
TableLen == 2
TableLevel == 3
TableValue == 2

Entries == {Transition(level, value) : level \in 1 .. TableLevel, value \in 0 .. TableValue}

Tables == UNION {[1 .. n -> Entries] : n \in 0 .. TableLen}

InitTable ==
    /\ \E table \in Tables : last = Did("new", table, 0)
    /\ dungeon_level \in 0 .. (TableLevel + 1)
    /\ objects = << >>
    /\ game_map = << >>
    /\ inventory = << >>
    /\ iteration = 0
    /\ messages = << >>
    /\ fov = {}
    /\ previous_player_position = <<-1, -1>>
    /\ player_action = "DidntTakeTurn"
    /\ pc = "from_dungeon_level"
    /\ id = 0
    /\ turns = << >>

LookUp ==
    /\ pc = "from_dungeon_level"
    /\ last' = Did("from_dungeon_level", last.key,
                   from_dungeon_level(last.key, dungeon_level))
    /\ pc' = "returned"
    /\ UNCHANGED <<objects, game_map, inventory, iteration, messages, fov, dungeon_level,
                   previous_player_position, player_action, id, turns>>

NextTable == LookUp

SpecTable == InitTable /\ [][NextTable]_vars

-----------------------------------------------------------------------------
(* GameObject::take_damage on its own: one combatant, damaged again and    *)
(* again by the amounts the callers of take_damage pass.                   *)

Combatants == {NewPlayer, Veteran, Monster("orc", 0, 0), Monster("troll", 0, 0)}

\* No damage, attack damages, FIREBALL_DAMAGE and LIGHTNING_DAMAGE.
DamageDraws == {0, 1, 5, 16, FIREBALL_DAMAGE, LIGHTNING_DAMAGE}

InitDamage ==
    \E c \in Combatants :
        /\ objects = <<c>>
        /\ game_map = [x \in 0 .. 0 |-> [y \in 0 .. 0 |-> Tile_empty]]
        /\ inventory = << >>
        /\ iteration = 0
        /\ dungeon_level = 1
        /\ messages = << >>
        /\ fov = {}
        /\ previous_player_position = <<-1, -1>>
        /\ player_action = "DidntTakeTurn"
        /\ pc = "take_damage"
        /\ id = 0
        /\ turns = << >>
        /\ last = Did("new", None, 0)

\* self.take_damage(damage, game): last records the damage and the
\* Option<i32> returned.
ApplyDamage ==
    /\ pc = "take_damage"
    /\ iteration < MaxIter
    /\ \E damage \in DamageDraws :
          LET r == take_damage(At(objects, 0), damage, << >>)
          IN  /\ objects' = <<r.obj>>
              /\ messages' = r.messages
              /\ last' = Did("take_damage", r.xp, damage)
    /\ iteration' = iteration + 1
    /\ UNCHANGED <<inventory, game_map, dungeon_level, fov,
                   previous_player_position, player_action, pc, id, turns>>

NextDamage == ApplyDamage

SpecDamage == InitDamage /\ [][NextDamage]_vars

-----------------------------------------------------------------------------
(* The claims.                                                             *)

\* The ids below n that hold an Ai, in increasing order.
AiIds(objs, n) ==
    SelectSeq([k \in 1 .. n |-> k - 1], LAMBDA k : IsSome(At(objs, k).ai))

\* The messages of a log, as a set.
Logged(msgs) == {msgs[j] : j \in 1 .. Len(msgs)}

\* C1: in an iteration of play_game the AI phase runs if and only if the
\* player is alive and the action took a turn; while it runs, the entities
\* that took a turn are exactly the Ai holders below the loop index, each
\* once and in increasing index order, and when it ends they are all the Ai
\* holders of the store.
C1_AiPhase ==
    /\ last.step = "handle_keys" =>
          (pc = "ai" <=> (At(objects, PLAYER).alive /\ player_action = "TookTurn"))
    /\ pc = "ai" => (player_action = "TookTurn" /\ turns = AiIds(objects, id))
    /\ (last.step = "ai_take_turn" /\ pc = "render") =>
          turns = AiIds(objects, Len(objects))

\* Two monsters have taken their turns, one after the other.
C1_Witness ==
    /\ last.step = "ai_take_turn"
    /\ pc = "render"
    /\ Len(turns) = 2

\* C2: a player move that fails (nothing was attacked and the player stands
\* where it stood) does not advance to the AI phase.
C2_FailedMoveTakesNoTurn ==
    (/\ last.step = "handle_keys"
     /\ last.key \in Keys
     /\ messages = << >>
     /\ pos(At(objects, PLAYER)) = previous_player_position) => pc # "ai"

\* C3: move_by changes the store only by setting the entity's position to
\* (x + dx, y + dy), and only when that tile is unblocked and holds no entity
\* with blocks = true; otherwise the store is returned as it was.
C3_MoveByLegality ==
    \A i \in Ids(objects) : \A dx \in -1 .. 1 : \A dy \in -1 .. 1 :
        LET o == At(objects, i)
            x == o.x + dx
            y == o.y + dy
            free == /\ ~game_map[x][y].blocked
                    /\ \A k \in Ids(objects) :
                          ~(At(objects, k).blocks /\ At(objects, k).x = x
                                                  /\ At(objects, k).y = y)
            r == move_by(i, dx, dy, game_map, objects)
        IN  \/ r = objects
            \/ free /\ r = [objects EXCEPT ![i + 1].x = x, ![i + 1].y = y]

\* A monster in view and further than 2 from the player has just had its
\* turn, and the open tile its step leads to holds a blocking entity.
C3_Witness ==
    /\ last.step = "ai_take_turn"
    /\ messages = << >>
    /\ LET m == At(objects, last.n)
           p == At(objects, PLAYER)
           dsq == DistSq(m, p.x, p.y)
           x == m.x + RoundUnit(p.x - m.x, dsq)
           y == m.y + RoundUnit(p.y - m.y, dsq)
       IN  /\ m.ai = Some(Basic)
           /\ is_in_fov(fov, m.x, m.y)
           /\ dsq > 4
           /\ ~game_map[x][y].blocked
           /\ \E k \in Ids(objects) : At(objects, k).blocks /\ pos(At(objects, k)) = <<x, y>>

\* The sum of the power bonus over the inventory's equipped items, for the
\* player; nothing for anyone else.
C4_PowerBonus(k) ==
    IF k = PLAYER
    THEN SumSeq([j \in 1 .. Len(inventory) |->
                    IF IsSome(inventory[j].equipment) /\ inventory[j].equipment[1].equipped
                    THEN inventory[j].equipment[1].power_bonus ELSE 0])
    ELSE 0

\* The same for the defense bonus.
C4_DefenseBonus(k) ==
    IF k = PLAYER
    THEN SumSeq([j \in 1 .. Len(inventory) |->
                    IF IsSome(inventory[j].equipment) /\ inventory[j].equipment[1].equipped
                    THEN inventory[j].equipment[1].defense_bonus ELSE 0])
    ELSE 0

\* C4: attack(a, b) deals damage = effective power of a - effective defense
\* of b, a stat's bonuses counting for the player only.  With damage <= 0
\* nothing changes but the log, which gains the 'no effect' message;
\* otherwise b loses exactly damage hp (and dies when that leaves none).
C4_AttackDamage ==
    \A a \in Ids(objects) : \A b \in Ids(objects) \ {a} :
        (IsSome(At(objects, a).fighter) /\ IsSome(At(objects, b).fighter)) =>
            LET oa == At(objects, a)
                ob == At(objects, b)
                damage == (oa.fighter[1].base_power + C4_PowerBonus(a))
                          - (ob.fighter[1].base_defense + C4_DefenseBonus(b))
                r == attack(oa, ob, inventory, << >>)
            IN  IF damage <= 0
                THEN /\ r.target = ob
                     /\ r.attacker = oa
                     /\ r.messages = <<Msg("{} attacks {} but it has no effect!",
                                           oa.name, ob.name, 0)>>
                ELSE /\ r.messages[1] = Msg("{} attacks {} for {} hit points.",
                                            oa.name, ob.name, damage)
                     /\ IF IsSome(r.target.fighter)
                        THEN r.target.fighter[1].hp = ob.fighter[1].hp - damage
                        ELSE ob.fighter[1].hp - damage <= 0

\* An orc's attack has just had no effect on the player, whose shield is
\* equipped, and the player's sword is equipped too.
C4_Witness ==
    /\ last.step = "ai_take_turn"
    /\ messages = <<Msg("{} attacks {} but it has no effect!", "orc", "player", 0)>>
    /\ \E j \in 1 .. Len(inventory) :
          /\ IsSome(inventory[j].equipment)
          /\ inventory[j].equipment[1].equipped
          /\ inventory[j].equipment[1].defense_bonus > 0
    /\ \E j \in 1 .. Len(inventory) :
          /\ IsSome(inventory[j].equipment)
          /\ inventory[j].equipment[1].equipped
          /\ inventory[j].equipment[1].power_bonus > 0

\* C5: damage that leaves a Monster-death fighter with hp <= 0 leaves the
\* entity with alive = false, blocks = false, no fighter, no ai and the name
\* "remains of <name>", where it was, and returns the fighter's xp; less
\* damage only lowers hp.  Every monster a step reports dead is in the
\* store as such remains.
C5_MonsterDeath ==
    /\ \A k \in Ids(objects) : \A damage \in DamageDraws :
          LET o == At(objects, k)
              r == take_damage(o, damage, << >>)
          IN  (IsSome(o.fighter) /\ o.fighter[1].on_death = "Monster") =>
                 IF o.fighter[1].hp - damage <= 0
                 THEN /\ ~r.obj.alive
                      /\ ~r.obj.blocks
                      /\ r.obj.fighter = None
                      /\ r.obj.ai = None
                      /\ r.obj.name = "remains of " \o o.name
                      /\ pos(r.obj) = pos(o)
                      /\ r.xp = Some(o.fighter[1].xp)
                 ELSE /\ r.obj.fighter[1].hp = o.fighter[1].hp - damage
                      /\ r.xp = None
    /\ \A m \in Logged(messages) :
          m.text = "{} Is dead!" =>
             \E k \in Ids(objects) :
                LET o == At(objects, k)
                IN  /\ o.name = "remains of " \o m.a
                    /\ ~o.alive
                    /\ ~o.blocks
                    /\ o.fighter = None
                    /\ o.ai = None

\* The player's attack has just killed an orc, whose remains lie on the
\* tile attacked, and has gained the player the orc's xp.
C5_Witness ==
    /\ last.step = "handle_keys"
    /\ last.key \in Keys
    /\ Msg("{} Is dead!", "orc", "", 0) \in Logged(messages)
    /\ At(objects, PLAYER).fighter[1].xp = Veteran.fighter[1].xp + 35
    /\ \E k \in Ids(objects) :
          /\ At(objects, k).name = "remains of orc"
          /\ At(objects, k).x = At(objects, PLAYER).x + Delta(last.key)[1]
          /\ At(objects, k).y = At(objects, PLAYER).y + Delta(last.key)[2]

\* C6: in every state between operations an entity with a fighter whose
\* hp <= 0 has alive = false.
C6_NoHpNotAlive ==
    \A k \in Ids(objects) :
        (IsSome(At(objects, k).fighter) /\ At(objects, k).fighter[1].hp <= 0)
            => ~At(objects, k).alive

\* A monster's attack has just left the player with no hp.
C6_Witness ==
    /\ last.step = "ai_take_turn"
    /\ "You died!" \in {m.text : m \in Logged(messages)}
    /\ At(objects, PLAYER).fighter[1].hp <= 0
    /\ ~At(objects, PLAYER).alive

\* C7: once an entity has alive = false, take_damage on it runs no death
\* transition: it logs nothing and returns no xp.
C7_DeathIsIdempotent ==
    [][(pc = "take_damage" /\ ~At(objects, 0).alive)
          => (messages' = << >> /\ last'.key = None)]_vars

\* C8: the entity at store index 0 is the player, and no other entity is;
\* alive it shows "@", dead it shows "%" in dark red and is otherwise as it
\* was: still named player, still blocking, still holding its fighter.
C8_PlayerAtIndexZero ==
    /\ Len(objects) >= 1
    /\ At(objects, 0).name = "player"
    /\ \A k \in Ids(objects) \ {0} : At(objects, k).name # "player"
    /\ IsSome(At(objects, 0).fighter)
    /\ At(objects, 0).fighter[1].on_death = "Player"
    /\ At(objects, 0).blocks
    /\ IF At(objects, 0).alive
       THEN At(objects, 0).glyph = "@"
       ELSE At(objects, 0).glyph = "%" /\ At(objects, 0).color = "DARK_RED"

\* On a regenerated level, "g" has just swap-removed an object that was not
\* the last of the store.
C8_Witness ==
    /\ dungeon_level >= 2
    /\ last.step = "handle_keys"
    /\ last.key = "g"
    /\ last.n >= 1
    /\ last.n < Len(objects)
    /\ Len(inventory) >= 1

\* C9: no entity but the player gains xp: every other fighter holds the xp
\* it was spawned with.
C9_OnlyPlayerGainsXp ==
    \A k \in Ids(objects) \ {PLAYER} :
        LET o == At(objects, k)
        IN  IsSome(o.fighter) => o.fighter[1].xp = Monster(o.name, 0, 0).fighter[1].xp

\* C10: level_up changes the store only when the player's xp is at least
\* 200 + level * 150; it then raises level by exactly 1 and lowers xp by
\* that threshold, leaving it at 0 or more.
C10_LevelUpThreshold ==
    \A choice \in 0 .. 2 :
        LET player == At(objects, PLAYER)
            threshold == 200 + player.level * 150
            r == level_up(choice, << >>, objects)
            after == At(r.objects, PLAYER)
        IN  IF player.fighter[1].xp >= threshold
            THEN /\ after.level = player.level + 1
                 /\ after.fighter[1].xp = player.fighter[1].xp - threshold
                 /\ after.fighter[1].xp >= 0
            ELSE r.objects = objects /\ r.messages = << >>

\* The player has just reached level 3 and keeps the 25 xp above the 500
\* that level 2 asked for.
C10_Witness ==
    /\ last.step = "level_up"
    /\ messages # << >>
    /\ At(objects, PLAYER).level = 3
    /\ At(objects, PLAYER).fighter[1].xp = 25

\* C11: level_up is checked exactly once in each iteration of play_game,
\* after the iteration begins and before handle_keys reads the action; the
\* check raises the level by one when the xp covers the threshold of the
\* level then held and by nothing otherwise, and no other step changes the
\* level.
C11_LevelUpOncePerIteration ==
    [][LET player == At(objects, PLAYER)
           gain == IF player.fighter[1].xp >= 200 + player.level * 150 THEN 1 ELSE 0
       IN  /\ pc' = "handle_keys" => pc = "level_up"
           /\ pc' = "level_up" => (pc = "render" /\ iteration' = iteration + 1)
           /\ pc = "level_up" =>
                 /\ pc' = "handle_keys"
                 /\ iteration' = iteration
                 /\ At(objects', PLAYER).level = player.level + gain
           /\ pc # "level_up" => At(objects', PLAYER).level = player.level]_vars

\* The second iteration's check has just taken the Champion to level 4,
\* the first having taken it to level 3.
C11_Witness ==
    /\ last.step = "level_up"
    /\ iteration = 2
    /\ messages # << >>
    /\ At(objects, PLAYER).level = Champion.level + 2
    /\ At(objects, PLAYER).fighter[1].xp = 1160 - 500 - 650

\* The ids of the monsters that hold the Basic Ai.
BasicIds == {k \in Ids(objects) : /\ k # PLAYER
                                   /\ IsSome(At(objects, k).ai)
                                   /\ Unwrap(At(objects, k).ai).tag = "Basic"}

Abs(n) == IF n < 0 THEN -n ELSE n

\* C12: in the AI phase, the turn of a monster with the Basic Ai does nothing when the
\* monster's tile is not in the field of view; when it is and the player is
\* more than 2 away the monster moves by at most one tile, closer to the
\* player, and does not attack; when it is and the player is within 2 the
\* monster stays where it is and attacks if and only if the player's hp is
\* above 0; in every case the monster's Ai is Basic afterwards.
C12_BasicTurn ==
    \A k \in BasicIds :
        (pc = "ai" /\ id = k) =>
        LET m == At(objects, k)
            p == At(objects, PLAYER)
            r == ai_take_turn(k, fov, game_map, inventory, << >>, objects, 0, 0)
            m2 == At(r.objects, k)
            p2 == At(r.objects, PLAYER)
            seen == is_in_fov(fov, m.x, m.y)
            far == DistSq(m, p.x, p.y) > 4
            hit == power(m, inventory) - defense(p, inventory)
        IN  /\ m2.ai = Some(Basic)
            /\ ~r.panic
            /\ ~seen => (r.objects = objects /\ r.messages = << >>)
            /\ (seen /\ far) =>
                  /\ r.messages = << >>
                  /\ r.objects = Put(objects, k, [m EXCEPT !.x = m2.x, !.y = m2.y])
                  /\ Abs(m2.x - m.x) <= 1 /\ Abs(m2.y - m.y) <= 1
                  /\ pos(m2) # pos(m) => DistSq(m2, p.x, p.y) < DistSq(m, p.x, p.y)
            /\ (seen /\ ~far /\ p.fighter[1].hp > 0) =>
                  /\ pos(m2) = pos(m)
                  /\ r.messages # << >>
                  /\ r.messages[1].a = m.name /\ r.messages[1].b = p.name
                  /\ p2.fighter[1].hp = p.fighter[1].hp - (IF hit > 0 THEN hit ELSE 0)
            /\ (seen /\ ~far /\ p.fighter[1].hp <= 0) =>
                  (r.objects = objects /\ r.messages = << >>)

\* The AI phase has just given a turn to a Basic monster that the field of
\* view does not hold, next to one the player can see.
C12_Witness ==
    /\ last.step = "ai_take_turn"
    /\ last.n \in BasicIds
    /\ ~is_in_fov(fov, At(objects, last.n).x, At(objects, last.n).y)
    /\ messages = << >>
    /\ \E k \in BasicIds : is_in_fov(fov, At(objects, k).x, At(objects, k).y)

\* The ids of the monsters that hold a Confused Ai.
ConfusedIds == {k \in Ids(objects) : /\ IsSome(At(objects, k).ai)
                                      /\ Unwrap(At(objects, k).ai).tag = "Confused"}

\* C13: in the AI phase, the turn of a monster with Confused(previous, n)
\* does this: with n >= 0 it tries a move by dx, dy drawn from -1..1 (made
\* when the destination is not blocked) and becomes Confused(previous, n - 1);
\* with n < 0 it does not move and becomes previous; in neither case does it
\* attack: nothing else in the store changes and nothing is logged.
C13_ConfusedTurn ==
    \A k \in ConfusedIds :
        (pc = "ai" /\ id = k) =>
        \A dx \in -1..1, dy \in -1..1 :
            LET m == At(objects, k)
                ai == Unwrap(m.ai)
                r == ai_take_turn(k, fov, game_map, inventory, << >>, objects, dx, dy)
                free == ~is_blocked(m.x + dx, m.y + dy, game_map, objects)
                moved == [m EXCEPT !.x = IF free THEN @ + dx ELSE @,
                                   !.y = IF free THEN @ + dy ELSE @]
            IN  /\ r.messages = << >>
                /\ ~r.panic
                /\ ai.num_turns >= 0 =>
                      r.objects = Put(objects, k,
                          [moved EXCEPT !.ai = Some(Confused(ai.previous_ai,
                                                             ai.num_turns - 1))])
                /\ ai.num_turns < 0 =>
                      r.objects = Put(objects, k, [m EXCEPT !.ai = Some(ai.previous_ai)])

\* The AI phase has just given a confused monster standing within reach of
\* the player the turn that takes its count from 0 to -1, and its next turn,
\* the one that ends the confusion, is about to follow.
C13_Witness ==
    /\ last.step = "ai_take_turn"
    /\ last.n \in ConfusedIds
    /\ Unwrap(At(objects, last.n).ai).num_turns = -1
    /\ DistSq(At(objects, last.n), At(objects, PLAYER).x, At(objects, PLAYER).y) <= 4
    /\ At(objects, PLAYER).alive
    /\ iteration < MaxIter

\* C14: a monster with Confused(previous, 0) holds previous again after its
\* very next turn, and does not move on that turn.
C14_RevertsAtZero ==
    \A k \in ConfusedIds :
        (pc = "ai" /\ id = k /\ Unwrap(At(objects, k).ai).num_turns = 0) =>
        \A dx \in -1..1, dy \in -1..1 :
            LET m == At(objects, k)
                r == ai_take_turn(k, fov, game_map, inventory, << >>, objects, dx, dy)
            IN  /\ At(r.objects, k).ai = Some(Unwrap(m.ai).previous_ai)
                /\ pos(At(r.objects, k)) = pos(m)

\* C15: the Ai kept inside a Confused is never itself a Confused.
C15_NoNestedConfusion ==
    \A k \in ConfusedIds :
        Unwrap(At(objects, k).ai).previous_ai.tag # "Confused"

\* The texts of a log, as a set.
Texts(msgs) == {msgs[j].text : j \in 1 .. Len(msgs)}

\* The inventory indices that hold an item of the given kind.
Holding(kind) == {k \in Ids(inventory) : At(inventory, k).item = Some(kind)}

\* C16: after each call of heal the fighter's hp is at most its effective
\* maximum, base_max_hp plus the max_hp bonuses of the equipped items: so for
\* the two calls the program makes, the healing potion's and next_level's,
\* wherever handle_keys can make them, and in the state each leaves.
C16_HealClamps ==
    LET player == At(objects, PLAYER)
        cap == player.fighter[1].base_max_hp
               + SumSeq([k \in 1 .. Len(get_all_equipped(player, inventory)) |->
                           get_all_equipped(player, inventory)[k].max_hp_bonus])
    IN  /\ pc = "handle_keys" =>
              /\ \A k \in Holding("Heal") :
                    At(use_item(k, None, fov, inventory, << >>, objects).objects,
                       PLAYER).fighter[1].hp <= cap
              /\ \A w \in next_level(inventory, << >>, objects, dungeon_level) :
                    At(w.objects, PLAYER).fighter[1].hp <= cap
        /\ (last.step = "handle_keys"
             /\ Texts(messages) \cap {"Your wounds start to feel better!",
                                       "You take a moment to rest, and recover your strength."}
                  # {}) =>
              player.fighter[1].hp <= cap

\* A healing potion has just been drunk by a player who was less than
\* HEAL_AMOUNT below the maximum, and the hp stands at the maximum.
C16_Witness ==
    /\ last.step = "handle_keys" /\ last.key = "i"
    /\ "Your wounds start to feel better!" \in Texts(messages)
    /\ At(objects, PLAYER).fighter[1].hp = At(objects, PLAYER).fighter[1].base_max_hp
    /\ At(objects, PLAYER).fighter[1].hp = NewPlayer.fighter[1].hp

\* The inventory without the item at index k.
Without(inv, k) == SubSeq(inv, 1, k) \o SubSeq(inv, k + 2, Len(inv))

\* C17: using a healing potion when the player's hp is at the effective
\* maximum is cancelled: the item stays in the inventory, the hp does not
\* change and a message is logged; otherwise the hp rises by
\* min(HEAL_AMOUNT, effective maximum - hp) and exactly the item used leaves
\* the inventory.
C17_HealItem ==
    (pc = "handle_keys" /\ At(objects, PLAYER).alive) =>
    \A k \in Holding("Heal") :
        LET player == At(objects, PLAYER)
            hp == player.fighter[1].hp
            cap == max_hp(player, inventory)
            r == use_item(k, None, fov, inventory, << >>, objects)
        IN  IF hp = cap
            THEN /\ r.inventory = inventory
                 /\ r.objects = objects
                 /\ "You are already at full health." \in Texts(r.messages)
            ELSE /\ r.inventory = Without(inventory, k)
                 /\ r.objects = Put(objects, PLAYER,
                        [player EXCEPT !.fighter[1].hp = hp + Min(HEAL_AMOUNT, cap - hp)])

\* The Veteran, down to 1 hp, has just drunk the only potion held: the hp is
\* HEAL_AMOUNT higher and the inventory holds no potion.
C17_Witness ==
    /\ last.step = "handle_keys" /\ last.key = "i"
    /\ "Your wounds start to feel better!" \in Texts(messages)
    /\ At(objects, PLAYER).fighter[1].hp = Veteran.fighter[1].hp + HEAL_AMOUNT
    /\ Holding("Heal") = {}
    /\ Len(inventory) = Len(SavedInventory)

\* The monsters a lightning bolt may choose among: every combatant other
\* than the player that holds an Ai and stands in the field of view.
Strikable == {k \in Ids(objects) : /\ k # PLAYER
                                    /\ IsSome(At(objects, k).fighter)
                                    /\ IsSome(At(objects, k).ai)
                                    /\ is_in_fov(fov, At(objects, k).x, At(objects, k).y)}

FromPlayer(k) == DistSq(At(objects, PLAYER), At(objects, k).x, At(objects, k).y)

\* Using a lightning scroll when the nearest of the Strikable is no further
\* than the square root of reach_sq deals LIGHTNING_DAMAGE to exactly one
\* monster, one of the nearest, and takes the scroll; otherwise it changes
\* nothing in the store and keeps the scroll.
LightningWithin(reach_sq) ==
    \A i \in Holding("Lightning") :
        LET r == use_item(i, None, fov, inventory, << >>, objects)
            nearest == {k \in Strikable : \A j \in Strikable : FromPlayer(k) <= FromPlayer(j)}
            struck == {k \in Ids(objects) \ {PLAYER} : At(r.objects, k) # At(objects, k)}
        IN  IF nearest # {} /\ (\E k \in nearest : FromPlayer(k) <= reach_sq)
            THEN /\ r.inventory = Without(inventory, i)
                 /\ \E k \in nearest :
                       /\ struck = {k}
                       /\ At(r.objects, k) =
                             take_damage(At(objects, k), LIGHTNING_DAMAGE, << >>).obj
            ELSE /\ r.inventory = inventory
                 /\ r.objects = objects

\* C18: using a lightning scroll deals LIGHTNING_DAMAGE to exactly the nearest
\* visible Ai-holding combatant other than the player, and only if it is
\* within LIGHTNING_RANGE of the player; otherwise the use is cancelled and
\* the scroll is kept.
C18_LightningRange == LightningWithin(LIGHTNING_RANGE * LIGHTNING_RANGE)

\* The store indices of the combatants within FIREBALL_RADIUS of tile t.
InBlast(t) == {k \in Ids(objects) :
                  /\ IsSome(At(objects, k).fighter)
                  /\ DistSq(At(objects, k), t[1], t[2]) <= FIREBALL_RADIUS * FIREBALL_RADIUS}

\* The xp of the combatants other than the player that die in the blast at t.
BlastXp(t) ==
    SumSeq([j \in 1 .. Len(objects) |->
              IF /\ j - 1 \in InBlast(t) /\ j - 1 # PLAYER
                 /\ objects[j].fighter[1].hp <= FIREBALL_DAMAGE
              THEN objects[j].fighter[1].xp ELSE 0])

\* C19: using a fireball scroll on a chosen tile deals FIREBALL_DAMAGE to
\* every combatant within FIREBALL_RADIUS of the tile, the player included,
\* and to nothing else; the player's xp rises by the sum of the xp of the
\* combatants other than the player that die in the blast; the scroll leaves
\* the inventory.  When no tile is chosen nothing is damaged and the scroll
\* is kept.
C19_Fireball ==
    (pc = "handle_keys" /\ At(objects, PLAYER).alive) =>
    \A i \in Holding("Fireball") :
        \A target \in Targets(i, fov, inventory, objects) :
            LET r == use_item(i, target, fov, inventory, << >>, objects)
            IN  IF IsNone(target)
                THEN r.objects = objects /\ r.inventory = inventory
                ELSE LET t == Unwrap(target)
                         burnt(k) == IF k \in InBlast(t)
                                     THEN take_damage(At(objects, k), FIREBALL_DAMAGE, << >>).obj
                                     ELSE At(objects, k)
                     IN  /\ r.inventory = Without(inventory, i)
                         /\ Len(r.objects) = Len(objects)
                         /\ \A k \in Ids(objects) \ {PLAYER} : At(r.objects, k) = burnt(k)
                         /\ At(r.objects, PLAYER) =
                               [burnt(PLAYER) EXCEPT !.fighter[1].xp = @ + BlastXp(t)]

\* A fireball has just burned the new player, who lives on with
\* FIREBALL_DAMAGE less hp, and killed a monster, whose xp the player now has.
C19_Witness ==
    /\ last.step = "handle_keys" /\ last.key = "i"
    /\ "The fireball explodes, burning everything within {} tiles!" \in Texts(messages)
    /\ At(objects, PLAYER).fighter[1].hp = NewPlayer.fighter[1].hp - FIREBALL_DAMAGE
    /\ At(objects, PLAYER).fighter[1].xp > 0
    /\ \E k \in Ids(objects) : At(objects, k).name = "remains of orc"
    /\ Holding("Fireball") = {}

\* C20: using a scroll of confusion on a chosen monster sets that monster's
\* Ai to Confused with previous_ai the Ai it held immediately before and
\* num_turns CONFUSE_NUM_TURNS, changes nothing else in the store, and takes
\* the scroll out of the inventory; when the targeting is cancelled no Ai
\* changes and the scroll is kept.
C20_Confuse ==
    (pc = "handle_keys" /\ At(objects, PLAYER).alive) =>
    \A i \in Holding("Confuse") :
        \A target \in Targets(i, fov, inventory, objects) :
            LET r == use_item(i, target, fov, inventory, << >>, objects)
            IN  IF IsNone(target)
                THEN r.objects = objects /\ r.inventory = inventory
                ELSE LET m == At(objects, Unwrap(target))
                     IN  /\ IsSome(m.ai)
                         /\ r.objects = Put(objects, Unwrap(target),
                                [m EXCEPT !.ai = Some(Confused(Unwrap(m.ai),
                                                               CONFUSE_NUM_TURNS))])
                         /\ r.inventory = Without(inventory, i)

\* One of the two saved scrolls has just confused a monster that held the
\* Basic Ai.
C20_Witness ==
    /\ last.step = "handle_keys" /\ last.key = "i"
    /\ "The eyes of {} look vacant, as he starts to stumble around!" \in Texts(messages)
    /\ Len(inventory) = Len(SavedScrolls) - 1
    /\ \E k \in ConfusedIds :
          At(objects, k).ai = Some(Confused(Basic, CONFUSE_NUM_TURNS))

\* The inventory indices of the items equipped in a slot.
Worn(slot) == {k \in Ids(inventory) : /\ IsSome(At(inventory, k).equipment)
                                       /\ At(inventory, k).equipment[1].equipped
                                       /\ At(inventory, k).equipment[1].slot = slot}

Slots == {"RightHand", "LeftHand"}

\* C21: whatever pick-ups, drops and equipment toggles came before, the
\* inventory holds at most one equipped item for each slot.
C21_SlotExclusivity == \A slot \in Slots : Cardinality(Worn(slot)) <= 1

\* C22: the entity drop_item places in the world is not equipped: an item
\* that was equipped when dropped has been unequipped first.
C22_DroppedIsUnequipped ==
    last.step = "drop_item" =>
        LET dropped == objects[Len(objects)]
        IN  IsSome(dropped.equipment) => ~dropped.equipment[1].equipped

\* C23: using a sword or a shield of the inventory toggles it, from
\* unequipped to equipped and from equipped to unequipped, and leaves it in
\* the inventory.
C23_UseToggles ==
    pc = "use_item" =>
    \A i \in Holding("Sword") \cup Holding("Shield") :
        LET r == use_item(i, None, fov, inventory, << >>, objects)
        IN  /\ Len(r.inventory) = Len(inventory)
            /\ At(r.inventory, i) =
                  [At(inventory, i) EXCEPT !.equipment[1].equipped = ~@]

\* The items of the inventory and of the world that carry an Equipment.
Gear == {inventory[k] : k \in {j \in 1 .. Len(inventory) : IsSome(inventory[j].equipment)}}
        \cup {objects[k] : k \in {j \in 1 .. Len(objects) : IsSome(objects[j].equipment)}}

\* C24: equip on an equipped item and dequip on an unequipped item change
\* neither the item nor the log, and either operation applied twice in a row
\* leaves what applying it once leaves.
C24_Idempotent ==
    \A it \in Gear :
        /\ it.equipment[1].equipped => equip(it, << >>) = [obj |-> it, messages |-> << >>]
        /\ ~it.equipment[1].equipped => dequip(it, << >>) = [obj |-> it, messages |-> << >>]
        /\ equip(equip(it, << >>).obj, equip(it, << >>).messages) = equip(it, << >>)
        /\ dequip(dequip(it, << >>).obj, dequip(it, << >>).messages) = dequip(it, << >>)

\* C25: a pick-up leaves the item picked up equipped if and only if it is
\* an equipment and no other item of the inventory is equipped in its slot,
\* and changes no other item of the inventory; an item that is no equipment
\* enters the inventory as it lay.
C25_AutoEquip ==
    (pc = "use_item" /\ IsSome(item_on_player_tile(objects))
                     /\ Len(inventory) < INVENTORY_MAX) =>
        LET item == At(objects, Unwrap(item_on_player_tile(objects)))
            r == pick_item_up(Unwrap(item_on_player_tile(objects)), inventory, << >>, objects)
            picked == At(r.inventory, Len(inventory))
        IN  /\ Len(r.inventory) = Len(inventory) + 1
            /\ \A k \in Ids(inventory) : At(r.inventory, k) = At(inventory, k)
            /\ IsNone(item.equipment) => picked = item
            /\ IsSome(item.equipment) =>
                  (picked.equipment[1].equipped <=> Worn(item.equipment[1].slot) = {})

\* C27: the inventory never holds more than INVENTORY_MAX items; a pick-up
\* tried with INVENTORY_MAX items held logs that the inventory is full and
\* leaves the store and the inventory as they were.
C27_InventoryFull ==
    /\ Len(inventory) <= INVENTORY_MAX
    /\ (pc = "use_item" /\ IsSome(item_on_player_tile(objects))
                        /\ Len(inventory) = INVENTORY_MAX) =>
          LET r == pick_item_up(Unwrap(item_on_player_tile(objects)), inventory, << >>, objects)
          IN  /\ r.objects = objects
              /\ r.inventory = inventory
              /\ Texts(r.messages) = {"Your inventory is full, cannot pick up {}."}

\* A pick-up has just been refused: the inventory is full, the message is
\* logged and the item still lies on the player's tile.
C27_Witness ==
    /\ last.step = "pick_item_up"
    /\ Len(inventory) = INVENTORY_MAX
    /\ "Your inventory is full, cannot pick up {}." \in Texts(messages)
    /\ IsSome(item_on_player_tile(objects))
    /\ last.n = Unwrap(item_on_player_tile(objects))

\* The message equip or dequip logs for a receiver it refuses.
Refusal(verb, o) ==
    IF IsNone(o.item)
    THEN Msg("Can't " \o verb \o " {:?} because it's not an Item.", o.name, "", 0)
    ELSE Msg("Can't " \o verb \o " {:?} because it's not an Equipment.", o.name, "", 0)

\* C26: every object whose Equipment is equipped is an item; equip and
\* dequip on an object that is no item or has no Equipment leave the object
\* as it is and log one error message, and the program goes on.
C26_EquipmentIsItem ==
    \A j \in 1 .. Len(objects) :
        LET o == objects[j]
        IN  /\ (IsSome(o.equipment) /\ o.equipment[1].equipped) => IsSome(o.item)
            /\ (IsNone(o.item) \/ IsNone(o.equipment)) =>
                  /\ equip(o, << >>) = [obj |-> o, messages |-> <<Refusal("equip", o)>>]
                  /\ dequip(o, << >>) = [obj |-> o, messages |-> <<Refusal("dequip", o)>>]
                  /\ last.step \in {"equip", "dequip"} =>
                        messages = <<Refusal(last.step, o)>>
            /\ pc # "panicked"

\* equip has just been called on a monster that carries an Equipment without
\* being an item: it is refused and the monster is not equipped.
C26_Witness ==
    /\ last.step = "equip"
    /\ IsNone(objects[1].item)
    /\ IsSome(objects[1].equipment)
    /\ ~objects[1].equipment[1].equipped
    /\ messages = <<Refusal("equip", objects[1])>>

\* C28: mut_two(i, j, items) aborts on its assertion when i = j; when i # j
\* it yields the element at index i and the element at index j, in that
\* order whichever of i and j is the larger, and the store is as it was.
C28_MutTwo ==
    /\ \A i \in Ids(objects), j \in Ids(objects) :
          /\ mut_two_ok(i, j) <=> i # j
          /\ i # j => mut_two(i, j, objects) = <<At(objects, i), At(objects, j)>>
    /\ last.step = "mut_two" =>
          /\ pc = "panicked" <=> last.n[1] = last.n[2]
          /\ pc # "panicked" =>
                last.key = <<At(objects, last.n[1]), At(objects, last.n[2])>>
    /\ objects \in Stores

\* mut_two has just returned for a first index above the second, with a
\* third element in the store.
C28_Witness ==
    /\ last.step = "mut_two"
    /\ pc # "panicked"
    /\ last.n[1] > last.n[2]
    /\ Len(objects) > 2
    /\ last.key[1] = At(objects, last.n[1])
    /\ last.key[1] # last.key[2]

\* The unblocked tiles of the map.
Floor == {t \in (DOMAIN game_map) \X (DOMAIN game_map[0]) : ~game_map[t[1]][t[2]].blocked}

\* The flood fill: the tiles of Floor a path of adjacent tiles of Floor
\* joins to a tile of seen.
RECURSIVE Flood(_)
Flood(seen) ==
    LET more == seen \cup {t \in Floor :
                    \E u \in seen : Abs(t[1] - u[1]) + Abs(t[2] - u[2]) = 1}
    IN  IF more = seen THEN seen ELSE Flood(more)

\* C29: in every dungeon make_map produces, every unblocked tile is
\* reachable from the player's start tile along adjacent unblocked tiles.
C29_Connectivity ==
    pc = "made" =>
        /\ pos(At(objects, PLAYER)) \in Floor
        /\ Flood({pos(At(objects, PLAYER))}) = Floor

\* make_map has produced a dungeon of three rooms, with tunnel tiles that
\* are in no room.
C29_Witness ==
    /\ pc = "made"
    /\ Len(last.key) = 3
    /\ \E t \in Floor : \A n \in 1 .. Len(last.key) :
          ~(/\ last.key[n].x1 < t[1] /\ t[1] < last.key[n].x2
            /\ last.key[n].y1 < t[2] /\ t[2] < last.key[n].y2)

\* C30: no two rooms make_map has accepted have intersecting rectangles,
\* borders included.
C30_RoomsApart ==
    \A a \in 1 .. Len(last.key), b \in 1 .. Len(last.key) :
        a # b => ~(/\ last.key[a].x1 <= last.key[b].x2
                   /\ last.key[a].x2 >= last.key[b].x1
                   /\ last.key[a].y1 <= last.key[b].y2
                   /\ last.key[a].y2 >= last.key[b].y1)

\* make_map has ended with two rooms accepted and one candidate turned
\* down.
C30_Witness ==
    /\ pc = "made"
    /\ Len(last.key) = DigRooms - 1

\* The last object of the store, where make_map pushes the stairs.
Newest == objects[Len(objects)]

\* C31: make_map accepts its first candidate, puts the player at the centre
\* of the first accepted room and a stairs object, always visible and not
\* blocking, at the centre of the last one; both tiles are unblocked, and
\* they are one tile when a single room was accepted.
C31_PlayerAndStairs ==
    /\ iteration >= 1 => Len(last.key) >= 1
    /\ Len(last.key) >= 1 =>
          LET first == last.key[1]
              player == At(objects, PLAYER)
          IN  /\ player.x = (first.x1 + first.x2) \div 2
              /\ player.y = (first.y1 + first.y2) \div 2
              /\ ~game_map[player.x][player.y].blocked
    /\ pc = "made" =>
          LET room == last.key[Len(last.key)]
          IN  /\ Newest.name = "stairs"
              /\ Newest.always_visible
              /\ ~Newest.blocks
              /\ Newest.x = (room.x1 + room.x2) \div 2
              /\ Newest.y = (room.y1 + room.y2) \div 2
              /\ ~game_map[Newest.x][Newest.y].blocked
              /\ Cardinality({k \in Ids(objects) : At(objects, k).name = "stairs"}) = 1
              /\ Len(last.key) = 1 => pos(Newest) = pos(At(objects, PLAYER))

\* make_map has ended with several rooms, the stairs away from the player.
C31_Witness ==
    /\ pc = "made"
    /\ Len(last.key) > 1
    /\ Newest.name = "stairs"
    /\ pos(Newest) # pos(At(objects, PLAYER))

\* An object as place_objects makes it: a monster or an item, untouched.
Fresh(o) ==
    \/ \E kind \in MonsterKinds : o = Monster(kind, o.x, o.y)
    \/ \E kind \in ConsumableKinds : o = Consumable(kind, o.x, o.y)

\* C32: the depth changes only by a descent, taken with the player on the
\* tile of a stairs object; the descent adds one to the depth, leaves the
\* inventory and the player as they were but for the player's position and
\* the rest heal of half the maximum hp, and leaves in the store, beside the
\* player, only what the new level was populated with and its stairs.
C32_Descent ==
    [][dungeon_level' # dungeon_level =>
          LET player == At(objects, PLAYER)
              after == At(objects', PLAYER)
              rested == player.fighter[1].hp + player.fighter[1].base_max_hp \div 2
              limit == player.fighter[1].base_max_hp
                         + SumSeq([k \in 1 .. Len(inventory) |->
                                      IF /\ IsSome(inventory[k].equipment)
                                         /\ inventory[k].equipment[1].equipped
                                      THEN inventory[k].equipment[1].max_hp_bonus ELSE 0])
          IN  /\ pc = "handle_keys"
              /\ last' = Did("handle_keys", "<", 1)
              /\ player.alive
              /\ \E k \in Ids(objects) : /\ At(objects, k).name = "stairs"
                                         /\ pos(At(objects, k)) = pos(player)
              /\ dungeon_level' = dungeon_level + 1
              /\ inventory' = inventory
              /\ player_action' = "DidntTakeTurn"
              /\ after = [player EXCEPT !.x = after.x, !.y = after.y,
                                        !.fighter[1].hp = IF rested > limit THEN limit ELSE rested]
              /\ objects'[Len(objects')].name = "stairs"
              /\ \A k \in 1 .. (Len(objects') - 2) : Fresh(At(objects', k))]_vars

\* The Veteran has dropped a piece of its gear on the first level and then
\* descended: it is on the second level, rested from 1 hp to 51.
C32_Witness ==
    /\ last = Did("handle_keys", "<", 1)
    /\ dungeon_level = 2
    /\ At(objects, PLAYER).level = 2
    /\ At(objects, PLAYER).fighter[1].hp = 51
    /\ Len(inventory) = 1

\* The tiles of the map, and those of its outer border.
Grid == (DOMAIN game_map) \X (DOMAIN game_map[0])
Border ==
    {t \in Grid : \E d \in {<<-1, 0>>, <<1, 0>>, <<0, -1>>, <<0, 1>>} :
                     <<t[1] + d[1], t[2] + d[2]>> \notin Grid}

\* The objects that move: the player and the ones with an Ai.
Movers == {k \in Ids(objects) : k = PLAYER \/ IsSome(At(objects, k).ai)}

\* C33: every object of the store is at a tile of the grid, every tile of
\* the grid's border is blocked, and whichever of the eight steps the
\* player's key, a Basic turn or a Confused turn tries next, the tile it
\* looks up is a tile of the grid.
C33_InsideGrid ==
    /\ \A k \in Ids(objects) :
          /\ 0 <= At(objects, k).x /\ At(objects, k).x < MAP_WIDTH
          /\ 0 <= At(objects, k).y /\ At(objects, k).y < MAP_HEIGHT
    /\ \A t \in Border : game_map[t[1]][t[2]].blocked
    /\ pc \in {"handle_keys", "ai"} =>
          \A k \in Movers : \A dx \in -1 .. 1, dy \in -1 .. 1 :
              <<At(objects, k).x + dx, At(objects, k).y + dy>> \in Grid
    /\ pc = "handle_keys" =>
          \A key \in Keys : Delta(key)[1] \in -1 .. 1 /\ Delta(key)[2] \in -1 .. 1
    /\ (pc = "ai" /\ id \in BasicIds) =>
          LET dx == At(objects, PLAYER).x - At(objects, id).x
              dy == At(objects, PLAYER).y - At(objects, id).y
          IN  /\ RoundUnit(dx, dx * dx + dy * dy) \in -1 .. 1
              /\ RoundUnit(dy, dx * dx + dy * dy) \in -1 .. 1

\* A monster confused for one more turn is about to move from a tile next
\* to the border, and so is the player, standing beside it.
C33_Witness ==
    /\ pc = "ai"
    /\ id \in ConfusedIds
    /\ Unwrap(At(objects, id).ai).num_turns >= 0
    /\ \E t \in Border : /\ Abs(t[1] - At(objects, id).x) <= 1
                          /\ Abs(t[2] - At(objects, id).y) <= 1
    /\ \E t \in Border : /\ Abs(t[1] - At(objects, PLAYER).x) <= 1
                          /\ Abs(t[2] - At(objects, PLAYER).y) <= 1

\* The table looked up is sorted by ascending level.
Ascending == \A a \in 1 .. Len(last.key), b \in 1 .. Len(last.key) :
                 a < b => last.key[a].level <= last.key[b].level

\* C34: for a table sorted by ascending level, from_dungeon_level returns
\* the value of an entry whose level is the greatest of the levels not
\* exceeding the depth, and 0 when no entry's level is within the depth
\* (the depth is below the first entry's level, or the table is empty).
C34_FromDungeonLevel ==
    (last.step = "from_dungeon_level" /\ Ascending) =>
        LET table == last.key
            within == {k \in 1 .. Len(table) : table[k].level <= dungeon_level}
        IN  IF within = {}
            THEN /\ last.n = 0
                 /\ Len(table) = 0 \/ dungeon_level < table[1].level
            ELSE \E k \in within :
                    /\ \A j \in within : table[j].level <= table[k].level
                    /\ last.n = table[k].value

\* A table of two entries of different levels and values, both levels
\* within the depth, has been looked up and the second value returned.
C34_Witness ==
    /\ last.step = "from_dungeon_level"
    /\ Len(last.key) = 2
    /\ last.key[1].level < last.key[2].level
    /\ last.key[2].level <= dungeon_level
    /\ last.key[1].value # last.key[2].value
    /\ last.n = last.key[2].value

\* C35: mut_two is never called with two equal indices: its assertion
\* never fails, no movement key makes the player the target of its own
\* attack, and the player, at store index 0, never has an Ai, so that no AI
\* turn is run for it.
C35_NoSelfAttack ==
    /\ pc # "panicked"
    /\ IsNone(At(objects, PLAYER).ai)
    /\ pc = "handle_keys" =>
          \A key \in Keys :
              LET x == At(objects, PLAYER).x + Delta(key)[1]
                  y == At(objects, PLAYER).y + Delta(key)[2]
              IN  ~(/\ IsSome(At(objects, PLAYER).fighter)
                    /\ pos(At(objects, PLAYER)) = <<x, y>>)
    /\ pc = "ai" => (IsSome(At(objects, id).ai) => id # PLAYER)

\* The player and a monster have each attacked the other: both are wounded
\* and alive, and a monster's turn has just been run.
C35_Witness ==
    /\ last.step = "ai_take_turn"
    /\ At(objects, PLAYER).name = "player"
    /\ At(objects, PLAYER).fighter[1].hp < 100
    /\ At(objects, PLAYER).fighter[1].hp > 50
    /\ At(objects, PLAYER).level = 1
    /\ \E k \in Ids(objects) : /\ IsSome(At(objects, k).ai)
                               /\ At(objects, k).fighter[1].hp < At(objects, k).fighter[1].base_max_hp
                               /\ last.n = k

\* C36: no two blocking objects are on one tile, and no blocking object is
\* on a blocked tile.
C36_BlockersApart ==
    /\ \A a \in Ids(objects), b \in Ids(objects) :
          (a # b /\ At(objects, a).blocks /\ At(objects, b).blocks)
              => pos(At(objects, a)) # pos(At(objects, b))
    /\ \A k \in Ids(objects) :
          At(objects, k).blocks => ~game_map[At(objects, k).x][At(objects, k).y].blocked

\* C37: a "g" of the live player picks up the first item object on the
\* player's tile as the store then is, unless there is none or the
\* inventory is full: the item leaves the store, the object that was last
\* takes its index, every other object keeps its index and its fields, and
\* the item is appended to the inventory (equipped or as it was).
C37_PickUpFrame ==
    [][(pc = "handle_keys" /\ last'.step = "handle_keys" /\ last'.key = "g") =>
          LET here == {k \in Ids(objects) : /\ At(objects, k).x = At(objects, PLAYER).x
                                            /\ At(objects, k).y = At(objects, PLAYER).y
                                            /\ IsSome(At(objects, k).item)}
              n == Len(objects)
              held == Len(inventory)
          IN  IF here = {} \/ held >= 26
              THEN objects' = objects /\ inventory' = inventory
              ELSE LET item_id == CHOOSE k \in here : \A j \in here : k <= j
                       item == At(objects, item_id)
                   IN  /\ last'.n = item_id
                       /\ Len(objects') = n - 1
                       /\ \A k \in 0 .. (n - 2) :
                             At(objects', k) = IF k = item_id THEN At(objects, n - 1)
                                               ELSE At(objects, k)
                       /\ Len(inventory') = held + 1
                       /\ SubSeq(inventory', 1, held) = inventory
                       /\ \/ inventory'[held + 1] = item
                          \/ /\ IsSome(item.equipment)
                             /\ inventory'[held + 1] = [item EXCEPT !.equipment[1].equipped = TRUE]]_vars

\* A potion has just been picked up from under a piece of gear dropped on
\* it: the gear, which was last in the store, has taken the potion's index,
\* before the stairs.
C37_Witness ==
    /\ last.step = "handle_keys"
    /\ last.key = "g"
    /\ last.n >= 1
    /\ last.n + 1 < Len(objects)
    /\ IsSome(At(objects, last.n).equipment)
    /\ At(objects, last.n + 1).name = "stairs"
    /\ Len(inventory) >= 1
    /\ IsNone(inventory[Len(inventory)].equipment)

\* C38: with the player dead and the AI phase in which it died (if it
\* died in one) over, no step starts an AI phase or changes an object's
\* position or hp, the player's level or stats, the inventory or the depth.
C38_DeadPlayerFrozen ==
    [][(~At(objects, PLAYER).alive /\ pc # "ai") =>
          /\ pc' # "ai"
          /\ Len(objects') = Len(objects)
          /\ \A k \in Ids(objects) :
                /\ pos(At(objects', k)) = pos(At(objects, k))
                /\ IsSome(At(objects', k).fighter) = IsSome(At(objects, k).fighter)
                /\ IsSome(At(objects, k).fighter) =>
                      At(objects', k).fighter[1].hp = At(objects, k).fighter[1].hp
          /\ At(objects', PLAYER).level = At(objects, PLAYER).level
          /\ At(objects', PLAYER).fighter = At(objects, PLAYER).fighter
          /\ inventory' = inventory
          /\ dungeon_level' = dungeon_level]_vars

\* The keys of the actions that take no turn: pick up, drop, use, descend,
\* and the rest (character information among them).
FreeKeys == {"g", "d", "i", "<", "other"}

\* C39: after a pick-up, a drop, an item use, a descent or a look at the
\* character information the loop goes back to rendering with no AI turn
\* taken, and an AI turn only ever follows a movement key or a wait, or
\* another AI turn of the phase they started.
C39_FreeActions ==
    [][/\ (pc = "handle_keys" /\ last'.key \in FreeKeys) =>
             (pc' = "render" /\ turns' = << >> /\ player_action' = "DidntTakeTurn")
       /\ last'.step = "ai_take_turn" =>
             /\ pc = "ai"
             /\ \/ last.step = "ai_take_turn"
                \/ (last.step = "handle_keys" /\ last.key \in Keys \cup {"NumPad5"})]_vars

\* An item has just been used with effect while a wounded monster is alive
\* and holds its Ai, and the loop is back at rendering.
C39_Witness ==
    /\ last.step = "handle_keys"
    /\ last.key = "i"
    /\ last.n >= 0
    /\ pc = "render"
    /\ At(objects, PLAYER).alive
    /\ messages # << >>
    /\ "Cancelled" \notin Texts(messages)
    /\ \E k \in Ids(objects) : /\ IsSome(At(objects, k).ai)
                               /\ At(objects, k).fighter[1].hp < At(objects, k).fighter[1].base_max_hp

\* The store indices of the objects that hold an Ai.
AiHolders(objs) == {k \in Ids(objs) : IsSome(At(objs, k).ai)}

\* Every object that holds an Ai is a combatant and alive.
AiSound(objs) ==
    \A k \in AiHolders(objs) : IsSome(At(objs, k).fighter) /\ At(objs, k).alive

\* C40: before and after every step the objects that hold an Ai are
\* combatants and alive; a step of the AI phase leaves the set of Ai holders
\* as it was; and on a level, while the store keeps its length, an object
\* that is not alive stays so and gets no Ai, whether by a monster's turn
\* or by a scroll of confusion.
C40_AiHolders ==
    [][/\ AiSound(objects)
       /\ AiSound(objects')
       /\ pc = "ai" => AiHolders(objects') = AiHolders(objects)
       /\ (dungeon_level' = dungeon_level /\ Len(objects') = Len(objects)) =>
             \A k \in Ids(objects) \ {PLAYER} :
                 ~At(objects, k).alive =>
                     (~At(objects', k).alive /\ IsNone(At(objects', k).ai))]_vars

\* One monster lies dead; the other has been confused with a scroll and has
\* just taken a turn.
C40_Witness ==
    /\ last.step = "ai_take_turn"
    /\ At(objects, PLAYER).alive
    /\ Len(inventory) < Len(SavedScrolls)
    /\ \E k \in Ids(objects) : /\ At(objects, k).fighter = None
                               /\ At(objects, k).ai = None
                               /\ At(objects, k).name \in {"remains of orc", "remains of troll"}
    /\ \E k \in ConfusedIds : last.n = k

====
